---- MODULE Spec2Model ----
(***************************************************************************)
(* Election Swing Projection Engine of the Rust Belt swing page            *)
(* (src/src/pages/RustBeltSwing3DPage.tsx) and the shared swing library    *)
(* (src/unnamed/part_014, imported as lib/election/swing).                 *)
(*                                                                         *)
(* Numbers.  The program computes in IEEE doubles; the model computes in   *)
(* exact rationals <<n, d>> (d >= 1, lowest terms), so an equality below   *)
(* is the exact identity that the program approximates to rounding error.  *)
(* parseFloat's non-finite results are kept apart from the rationals.      *)
(***************************************************************************)
EXTENDS Integers, Sequences, FiniteSets, TLC

(***************************************************************************)
(* Bounds of the model.                                                    *)
(***************************************************************************)
\* number of counties a baseline feed may carry
NumUnits == 2

(***************************************************************************)
(* Exact rational arithmetic.                                              *)
(***************************************************************************)
IAbs(i) == IF i < 0 THEN -i ELSE i

RECURSIVE GCD(_, _)
GCD(a, b) == IF b = 0 THEN a ELSE GCD(b, a % b)

\* the rational n/d in lowest terms with a positive denominator (d # 0)
Q(n, d) ==
  LET g == GCD(IAbs(n), IAbs(d))
      s == IF d < 0 THEN -1 ELSE 1
  IN  <<(s * n) \div g, (s * d) \div g>>

R0 == <<0, 1>>
R1 == <<1, 1>>
RInt(i) == <<i, 1>>
\* sums and products cancel common factors before multiplying
RAdd(a, b) ==
  LET g == GCD(a[2], b[2])
  IN  Q(a[1] * (b[2] \div g) + b[1] * (a[2] \div g), (a[2] \div g) * b[2])
RNeg(a) == <<-a[1], a[2]>>
RSub(a, b) == RAdd(a, RNeg(b))
RMul(a, b) ==
  LET g1 == GCD(IAbs(a[1]), b[2])
      g2 == GCD(IAbs(b[1]), a[2])
  IN  Q((a[1] \div g1) * (b[1] \div g2), (a[2] \div g2) * (b[2] \div g1))
\* b # 0: every division of the modelled code has a non-zero divisor
RDiv(a, b) ==
  RMul(a, IF b[1] < 0 THEN <<-b[2], -b[1]>> ELSE <<b[2], b[1]>>)
RLt(a, b) ==
  LET g == GCD(a[2], b[2]) IN a[1] * (b[2] \div g) < b[1] * (a[2] \div g)
RLe(a, b) == ~RLt(b, a)
RAbs(a) == <<IAbs(a[1]), a[2]>>
RMax(a, b) == IF RLt(a, b) THEN b ELSE a
RMin(a, b) == IF RLt(b, a) THEN b ELSE a

(***************************************************************************)
(* Text of the target-margin input and its parse.                          *)
(* A text is a sequence of one-character strings.                          *)
(***************************************************************************)
Digits == {"0", "1", "2", "3", "4", "5", "6", "7", "8", "9"}
DigitVal(c) ==
  CASE c = "0" -> 0 [] c = "1" -> 1 [] c = "2" -> 2 [] c = "3" -> 3
    [] c = "4" -> 4 [] c = "5" -> 5 [] c = "6" -> 6 [] c = "7" -> 7
    [] c = "8" -> 8 [] c = "9" -> 9

InfinityText == <<"I", "n", "f", "i", "n", "i", "t", "y">>

\* String.prototype.trim: drop the white space at both ends
RECURSIVE trimStart(_)
trimStart(s) == IF s # <<>> /\ Head(s) = " " THEN trimStart(Tail(s)) ELSE s
RECURSIVE trimEnd(_)
trimEnd(s) ==
  IF s # <<>> /\ s[Len(s)] = " " THEN trimEnd(SubSeq(s, 1, Len(s) - 1)) ELSE s
trim(s) == trimEnd(trimStart(s))

\* the length of the longest run of digits at the head of s
RECURSIVE DigitRun(_)
DigitRun(s) == IF s # <<>> /\ Head(s) \in Digits THEN 1 + DigitRun(Tail(s)) ELSE 0

\* the value of a run of digits read as a decimal integer
RECURSIVE DigitsValue(_, _)
DigitsValue(s, acc) ==
  IF s = <<>> THEN acc ELSE DigitsValue(Tail(s), 10 * acc + DigitVal(Head(s)))

RECURSIVE Pow10(_)
Pow10(k) == IF k = 0 THEN 1 ELSE 10 * Pow10(k - 1)

IsPrefix(p, s) == Len(p) <= Len(s) /\ SubSeq(s, 1, Len(p)) = p

NaN == [kind |-> "NaN", val |-> R0]
PosInfinity == [kind |-> "Infinity", val |-> R0]
NegInfinity == [kind |-> "-Infinity", val |-> R0]
Num(q) == [kind |-> "num", val |-> q]

\* parseFloat: skips leading white space, reads an optional sign, then either
\* the literal Infinity or the longest decimal literal (digits, optional point
\* and digits); what follows the literal is ignored; no literal gives NaN.
\* The texts of the model hold no exponent letter.
parseFloat(text) ==
  LET s0 == trimStart(text)
      signed == s0 # <<>> /\ Head(s0) \in {"-", "+"}
      neg == s0 # <<>> /\ Head(s0) = "-"
      s1 == IF signed THEN Tail(s0) ELSE s0
      ni == DigitRun(s1)
      s2 == SubSeq(s1, ni + 1, Len(s1))
      point == s2 # <<>> /\ Head(s2) = "."
      nf == IF point THEN DigitRun(Tail(s2)) ELSE 0
      ip == DigitsValue(SubSeq(s1, 1, ni), 0)
      fp == IF point THEN DigitsValue(SubSeq(s2, 2, nf + 1), 0) ELSE 0
      mag == RAdd(RInt(ip), Q(fp, Pow10(nf)))
  IN  IF IsPrefix(InfinityText, s1)
        THEN (IF neg THEN NegInfinity ELSE PosInfinity)
      ELSE IF ni + nf = 0 THEN NaN
      ELSE Num(IF neg THEN RNeg(mag) ELSE mag)

\* the global isFinite applied to a parse result
isFinite(x) == x.kind = "num"

(***************************************************************************)
(* Shared swing library (lib/election/swing).                              *)
(***************************************************************************)
swing_clamp(v, lo, hi) == RMax(lo, RMin(hi, v))

\* mutant: a margin equal to a threshold stays in the lower bin
iowaMarginBinIndex_ThresholdLow(absMargin) ==
  LET m == RAbs(absMargin)
  IN  IF RLe(m, RInt(1)) THEN 0 ELSE IF RLe(m, RInt(5)) THEN 1
      ELSE IF RLe(m, RInt(10)) THEN 2 ELSE IF RLe(m, RInt(20)) THEN 3
      ELSE IF RLe(m, RInt(30)) THEN 4 ELSE 5

iowaMarginBinIndex(absMargin) ==
  LET m == RAbs(absMargin)
  IN  IF RLt(m, RInt(1)) THEN 0 ELSE IF RLt(m, RInt(5)) THEN 1
      ELSE IF RLt(m, RInt(10)) THEN 2 ELSE IF RLt(m, RInt(20)) THEN 3
      ELSE IF RLt(m, RInt(30)) THEN 4 ELSE 5

\* mutant: the magnitude is not capped at 40
extrusionFromMarginIOWA_NoCap(marginPct) ==
  RAdd(RInt(1000), RMul(RDiv(RAbs(marginPct), RInt(40)), RInt(18000)))

extrusionFromMarginIOWA(marginPct) ==
  LET mag == RMin(RInt(40), RAbs(marginPct))
  IN  RAdd(RInt(1000), RMul(RDiv(mag, RInt(40)), RInt(18000)))

\* mutant: the normalised turnout is not capped at 1.2
turnoutHeightFromVotesIOWA_NoCap(totalVotes, turnoutFactor, p95) ==
  LET tf == swing_clamp(turnoutFactor, <<1, 2>>, <<3, 2>>)
      scaledVotes == RMul(RMax(R0, totalVotes), tf)
      norm == IF RLt(R0, p95) THEN RDiv(scaledVotes, p95) ELSE R0
  IN  RAdd(RInt(1000), RMul(norm, RInt(18000)))

\* totalVotes, turnoutFactor and p95 are numbers (totalVotes || 0 is totalVotes)
turnoutHeightFromVotesIOWA(totalVotes, turnoutFactor, p95) ==
  LET tf == swing_clamp(turnoutFactor, <<1, 2>>, <<3, 2>>)
      scaledVotes == RMul(RMax(R0, totalVotes), tf)
      norm == RMin(<<6, 5>>, IF RLt(R0, p95) THEN RDiv(scaledVotes, p95) ELSE R0)
  IN  RAdd(RInt(1000), RMul(norm, RInt(18000)))

\* mutant: the shares are rescaled to sum to 1 whatever their sum
computeSharesAfterSwing_AlwaysRescales(dShare0, gShare0, demSwingPP, gopSwingPP) ==
  LET dShareC == swing_clamp(RAdd(dShare0, RDiv(demSwingPP, RInt(100))), R0, R1)
      gShareC == swing_clamp(RAdd(gShare0, RDiv(gopSwingPP, RInt(100))), R0, R1)
      sumDG == RAdd(dShareC, gShareC)
      scale == RDiv(R1, sumDG)
  IN  IF RLt(R0, sumDG)
        THEN [dShare |-> RMul(dShareC, scale), gShare |-> RMul(gShareC, scale)]
        ELSE [dShare |-> dShareC, gShare |-> gShareC]

\* mutant: the excess over 1 is taken off the two shares in equal parts
computeSharesAfterSwing_SplitsExcess(dShare0, gShare0, demSwingPP, gopSwingPP) ==
  LET dShareC == swing_clamp(RAdd(dShare0, RDiv(demSwingPP, RInt(100))), R0, R1)
      gShareC == swing_clamp(RAdd(gShare0, RDiv(gopSwingPP, RInt(100))), R0, R1)
      sumDG == RAdd(dShareC, gShareC)
      half == RDiv(RSub(sumDG, R1), RInt(2))
  IN  IF RLt(R1, sumDG)
        THEN [dShare |-> RSub(dShareC, half), gShare |-> RSub(gShareC, half)]
        ELSE [dShare |-> dShareC, gShare |-> gShareC]

computeSharesAfterSwing(dShare0, gShare0, demSwingPP, gopSwingPP) ==
  LET dShareC == swing_clamp(RAdd(dShare0, RDiv(demSwingPP, RInt(100))), R0, R1)
      gShareC == swing_clamp(RAdd(gShare0, RDiv(gopSwingPP, RInt(100))), R0, R1)
      sumDG == RAdd(dShareC, gShareC)
      scale == RDiv(R1, sumDG)
  IN  IF RLt(R1, sumDG)
        THEN [dShare |-> RMul(dShareC, scale), gShare |-> RMul(gShareC, scale)]
        ELSE [dShare |-> dShareC, gShare |-> gShareC]

\* mutant: the local swings are not added to the global swings
computeProjectedMargin_DropsLocal(demVotes, gopVotes, totalVotes, demSwingPP, gopSwingPP, localDemPP, localGopPP) ==
  LET T == RMax(R1, RInt(totalVotes))
      d0 == RDiv(RInt(demVotes), T)
      g0 == RDiv(RInt(gopVotes), T)
      s == computeSharesAfterSwing(d0, g0, demSwingPP, gopSwingPP)
  IN  [baseMargin |-> RMul(RSub(g0, d0), RInt(100)),
       newMargin |-> RMul(RSub(s.gShare, s.dShare), RInt(100))]

computeProjectedMargin(demVotes, gopVotes, totalVotes, demSwingPP, gopSwingPP, localDemPP, localGopPP) ==
  LET T == RMax(R1, RInt(totalVotes))
      d0 == RDiv(RInt(demVotes), T)
      g0 == RDiv(RInt(gopVotes), T)
      s == computeSharesAfterSwing(d0, g0, RAdd(demSwingPP, localDemPP),
                                   RAdd(gopSwingPP, localGopPP))
  IN  [baseMargin |-> RMul(RSub(g0, d0), RInt(100)),
       newMargin |-> RMul(RSub(s.gShare, s.dShare), RInt(100))]

(***************************************************************************)
(* State of the Rust Belt swing page (RustBeltSwing3DPage).                *)
(***************************************************************************)
VARIABLES
  baselineByYear,     \* baselineByYearRef: year -> (fips -> CountyBaseline)
  baseMap,            \* baseMap ref: fips -> CountyBaseline of the active year
  loaded,             \* the mount-time baseline load has completed
  baseYear,           \* useState baseYear
  demSwing,           \* useState demSwing (pp)
  gopSwing,           \* useState gopSwing (pp)
  turnoutShift,       \* useState turnoutShift (%)
  linkSwings,         \* useState linkSwings
  netSwing,           \* useState netSwing
  solverTargetMargin, \* useState solverTargetMargin: the text of the input
  solverMode,         \* useState solverMode
  solverActive,       \* useState solverActive
  solverLocalSwings,  \* solverLocalSwingsRef: fips -> {dem, gop}
  solverStatus,       \* useState solverStatus
  scope,              \* useState scope: 'RB' or 'ALL'
  rbBaselineByYear,   \* rbBaselineByYearRef: the Rust Belt timelines
  natBaselineByYear,  \* natBaselineByYearRef: the national timelines
  playing,            \* useState playing: the autoplay timer is running
  counties,           \* useCountyElectionSimulation: useState counties
  lastOp,             \* history: the handler that ran last, and on what
  probe               \* result of the last call of the shared swing library

vars == <<baselineByYear, baseMap, loaded, baseYear, demSwing, gopSwing,
          turnoutShift, linkSwings, netSwing, solverTargetMargin, solverMode,
          solverActive, solverLocalSwings, solverStatus, scope,
          rbBaselineByYear, natBaselineByYear, playing, counties, lastOp, probe>>

scenarioVars == <<demSwing, gopSwing, turnoutShift, linkSwings, netSwing>>
scopeVars == <<scope, rbBaselineByYear, natBaselineByYear>>
baselineVars == <<baselineByYear, baseMap, loaded, baseYear>>
solverVars == <<solverActive, solverLocalSwings, solverStatus>>

EmptyMap == [f \in {} |-> R0]

\* lastOp after a handler whose run is not recorded
OtherOp == [op |-> "other", wasActive |-> FALSE, repeat |-> FALSE]

\* mutant: the lower limit is not applied
clamp_NoLowerLimit(v, lo, hi) == RMin(hi, v)

\* the page's own clamp
clamp(v, lo, hi) == RMax(lo, RMin(hi, v))

\* the local swing projectedSwing reads for fips ("" stands for undefined)
localSwingOf(fips) ==
  IF solverActive /\ fips # "" /\ fips \in DOMAIN solverLocalSwings
    THEN solverLocalSwings[fips]
    ELSE [dem |-> R0, gop |-> R0]

NoShares == [g |-> R0, d |-> R0]

projectedSwing(base, fips) ==
  IF base.totalVotes2024 <= 0
    THEN [swing |-> R0, newMargin |-> R0, baseMargin |-> R0, hasShares |-> FALSE,
          baseShares |-> NoShares, newShares |-> NoShares,
          local |-> [dem |-> R0, gop |-> R0]]
    ELSE
      LET T == RMax(R1, RInt(base.totalVotes2024))
          gShare0 == RDiv(RInt(base.votesGop2024), T)
          dShare0 == RDiv(RInt(base.votesDem2024), T)
          baseMargin == RMul(RSub(gShare0, dShare0), RInt(100))
          loc == localSwingOf(fips)
          dShareC == clamp(RAdd(RAdd(dShare0, RDiv(demSwing, RInt(100))),
                                RDiv(loc.dem, RInt(100))), R0, R1)
          gShareC == clamp(RAdd(RAdd(gShare0, RDiv(gopSwing, RInt(100))),
                                RDiv(loc.gop, RInt(100))), R0, R1)
          sumDG == RAdd(dShareC, gShareC)
          scale == RDiv(R1, sumDG)
          dShare == IF RLt(R1, sumDG) THEN RMul(dShareC, scale) ELSE dShareC
          gShare == IF RLt(R1, sumDG) THEN RMul(gShareC, scale) ELSE gShareC
          newMargin == RMul(RSub(gShare, dShare), RInt(100))
      IN  [swing |-> RSub(newMargin, baseMargin), newMargin |-> newMargin,
           baseMargin |-> baseMargin, hasShares |-> TRUE,
           baseShares |-> [g |-> gShare0, d |-> dShare0],
           newShares |-> [g |-> gShare, d |-> dShare],
           local |-> loc]

\* mutant: the projected margins are used only when a slider is off zero
anySwing_IgnoresSolver == demSwing # R0 \/ gopSwing # R0

anySwing == demSwing # R0 \/ gopSwing # R0 \/ solverActive

\* sum of f over the keys in S
RECURSIVE RSum(_, _)
RSum(f, S) ==
  IF S = {} THEN R0
  ELSE LET x == CHOOSE x \in S : TRUE IN RAdd(f[x], RSum(f, S \ {x}))

\* mutant: a record without votes weighs as one vote
turnoutOf_AtLeastOne(b) == RMax(R1, RInt(b.totalVotes2024))

\* Math.max(0, Number(b.totalVotes2024 || 0))
turnoutOf(b) == RMax(R0, RInt(b.totalVotes2024))

\* the turnout-weighted mean, in pp, of the margins m[f] of the entries F of
\* the active baseline map: the loop shared by the three aggregators
weightedMargin(F, m) ==
  LET T == RSum([f \in F |-> turnoutOf(baseMap[f])], F)
      sum == RSum([f \in F |-> RMul(RDiv(m[f], RInt(100)), turnoutOf(baseMap[f]))], F)
  IN  IF F = {} THEN R0
      ELSE IF RLt(R0, T) THEN RMul(RDiv(sum, T), RInt(100)) ELSE R0

computeStateProjectedMargin(stateFips) ==
  LET F == {f \in DOMAIN baseMap : baseMap[f].stateFips = stateFips}
  IN  weightedMargin(F, [f \in F |->
        LET p == projectedSwing(baseMap[f], f)
        IN  IF anySwing THEN p.newMargin ELSE p.baseMargin])

\* mutant: the current margin includes the local swings in effect
computeCurrentStatewideMargin_WithLocal ==
  LET F == DOMAIN baseMap
  IN  weightedMargin(F, [f \in F |->
        LET p == projectedSwing(baseMap[f], f)
        IN  IF anySwing THEN p.newMargin ELSE p.baseMargin])

computeCurrentStatewideMarginNoLocal ==
  LET F == DOMAIN baseMap
  IN  weightedMargin(F, [f \in F |->
        LET p == projectedSwing(baseMap[f], "")
        IN  IF demSwing # R0 \/ gopSwing # R0 THEN p.newMargin ELSE p.baseMargin])

\* the StatewideReadout component: the margins it shows and whether its
\* label reads 'Projected (incl. sliders, solver)'
StatewideReadout ==
  [projected |-> computeCurrentStatewideMarginNoLocal,
   labelInclSolver |-> solverActive]

(***************************************************************************)
(* Targeted Outcome Solver (runSolver, clearSolver).                       *)
(***************************************************************************)
\* Array.from(yearMaps.keys()).sort(): the loaded years in ascending order
\* (the default sort compares the decimal texts, which all have four digits)
RECURSIVE sortedYears(_)
sortedYears(Y) ==
  IF Y = {} THEN <<>>
  ELSE LET y == CHOOSE y \in Y : \A z \in Y : y <= z
       IN  <<y>> \o sortedYears(Y \ {y})

\* the margins of county f in the loaded years that have a record of it with
\* positive turnout, in ascending year order
RECURSIVE marginsOf(_, _)
marginsOf(f, years) ==
  IF years = <<>> THEN <<>>
  ELSE LET ym == baselineByYear[Head(years)]
           rest == marginsOf(f, Tail(years))
       IN  IF f \in DOMAIN ym /\ ym[f].totalVotes2024 > 0
             THEN LET m == ym[f]
                      T == RMax(R1, RInt(m.totalVotes2024))
                      g0 == RDiv(RInt(m.votesGop2024), T)
                      d0 == RDiv(RInt(m.votesDem2024), T)
                  IN  <<RMul(RSub(g0, d0), RInt(100))>> \o rest
             ELSE rest

\* sum of |margins[i] - margins[i-1]| for i in 2..Len(margins)
RECURSIVE sumAbsDeltas(_)
sumAbsDeltas(margins) ==
  IF Len(margins) < 2 THEN R0
  ELSE RAdd(RAbs(RSub(margins[2], margins[1])), sumAbsDeltas(Tail(margins)))

ElastMin == <<1, 2>>
ElastMax == <<3, 1>>
ElastDivisor == <<5, 1>>

\* mutant: the net change from the first to the last cycle is averaged
elasticityFrom_NetChange(margins) ==
  IF Len(margins) >= 2
    THEN LET cnt == Len(margins) - 1
             avg == RDiv(RAbs(RSub(margins[Len(margins)], margins[1])), RInt(cnt))
         IN  RMax(ElastMin, RMin(ElastMax, RAdd(ElastMin, RDiv(avg, ElastDivisor))))
    ELSE R1

\* the elasticity of a margin history
elasticityFrom(margins) ==
  IF Len(margins) >= 2
    THEN LET cnt == Len(margins) - 1
             avg == RDiv(sumAbsDeltas(margins), RInt(cnt))
         IN  RMax(ElastMin, RMin(ElastMax, RAdd(ElastMin, RDiv(avg, ElastDivisor))))
    ELSE R1

\* the margins of county f in the loaded years that have a record of it,
\* whatever its turnout
RECURSIVE marginsOfAll(_, _)
marginsOfAll(f, years) ==
  IF years = <<>> THEN <<>>
  ELSE LET ym == baselineByYear[Head(years)]
           rest == marginsOfAll(f, Tail(years))
       IN  IF f \in DOMAIN ym
             THEN LET T == RMax(R1, RInt(ym[f].totalVotes2024))
                  IN  <<RMul(RSub(RDiv(RInt(ym[f].votesGop2024), T),
                                  RDiv(RInt(ym[f].votesDem2024), T)), RInt(100))>>
                        \o rest
             ELSE rest

\* mutant: cycles without votes count as cycles
eMap_CountsEmptyCycles(f) ==
  elasticityFrom(marginsOfAll(f, sortedYears(DOMAIN baselineByYear)))

\* eMap.get(f) of runSolver
eMap(f) == elasticityFrom(marginsOf(f, sortedYears(DOMAIN baselineByYear)))

\* T of runSolver
solverT == RSum([f \in DOMAIN baseMap |-> turnoutOf(baseMap[f])], DOMAIN baseMap)

\* wMap.get(f) of runSolver, T being the total turnout
wMap(f, T) == RDiv(turnoutOf(baseMap[f]), T)

\* mutant: the mode is ignored and every solve is elastic
modeElasticity_IgnoresMode(mode, f) == eMap(f)

\* e of runSolver: the elasticity the mode gives county f
modeElasticity(mode, f) == IF mode = "elastic" THEN eMap(f) ELSE R1

\* mutant: the elasticities are summed without the turnout weights
solverDenom_Unweighted(mode) ==
  RSum([f \in DOMAIN baseMap |-> modeElasticity(mode, f)], DOMAIN baseMap)

\* denom of runSolver
solverDenom(mode) ==
  LET T == solverT
      d == RSum([f \in DOMAIN baseMap |-> RMul(wMap(f, T), modeElasticity(mode, f))],
                DOMAIN baseMap)
  IN  IF RLe(d, R0) THEN R1 ELSE d

\* dCounty of runSolver
dCounty(delta, e, denom) == RDiv(RMul(delta, e), denom)

\* local of runSolver
solverAllocation(delta, mode) ==
  LET denom == solverDenom(mode)
  IN  [f \in DOMAIN baseMap |->
        LET d == dCounty(delta, modeElasticity(mode, f), denom)
        IN  [dem |-> RNeg(RDiv(d, RInt(2))), gop |-> RDiv(d, RInt(2))]]

Tolerance == <<1, 20>>

\* solverStatus holds which message was set (and, for an applied allocation,
\* the mode named in it); the numbers formatted into the text are left out
Status(kind, mode) == [kind |-> kind, mode |-> mode]
NoStatus == Status("", "")

\* mutant: within the tolerance the allocation in effect is left in place
solveOutcome_NoOpKeepsAllocation ==
  LET target == parseFloat(trim(solverTargetMargin))
      current == computeCurrentStatewideMarginNoLocal
      delta == RSub(target.val, current)
      keep(st) == [active |-> solverActive, local |-> solverLocalSwings, status |-> st]
  IN  IF ~isFinite(target) THEN keep(Status("invalid", ""))
      ELSE IF RLt(RAbs(delta), Tolerance) THEN keep(Status("noop", ""))
      ELSE IF DOMAIN baseMap = {} THEN keep(Status("nodata", ""))
      ELSE IF RLe(solverT, R0) THEN keep(Status("zerovotes", ""))
      ELSE [active |-> TRUE, local |-> solverAllocation(delta, solverMode),
            status |-> Status("applied", solverMode)]

\* mutant: an invalid target clears the solver
solveOutcome_InvalidTargetClears ==
  LET target == parseFloat(trim(solverTargetMargin))
      current == computeCurrentStatewideMarginNoLocal
      delta == RSub(target.val, current)
      keep(st) == [active |-> solverActive, local |-> solverLocalSwings, status |-> st]
  IN  IF ~isFinite(target)
        THEN [active |-> FALSE, local |-> EmptyMap, status |-> Status("invalid", "")]
      ELSE IF RLt(RAbs(delta), Tolerance)
        THEN [active |-> FALSE, local |-> EmptyMap, status |-> Status("noop", "")]
      ELSE IF DOMAIN baseMap = {} THEN keep(Status("nodata", ""))
      ELSE IF RLe(solverT, R0) THEN keep(Status("zerovotes", ""))
      ELSE [active |-> TRUE, local |-> solverAllocation(delta, solverMode),
            status |-> Status("applied", solverMode)]

\* the outcome of runSolver as [active, local, status]
solveOutcome ==
  LET target == parseFloat(trim(solverTargetMargin))
      current == computeCurrentStatewideMarginNoLocal
      delta == RSub(target.val, current)
      keep(st) == [active |-> solverActive, local |-> solverLocalSwings, status |-> st]
  IN  IF ~isFinite(target) THEN keep(Status("invalid", ""))
      ELSE IF RLt(RAbs(delta), Tolerance)
        THEN [active |-> FALSE, local |-> EmptyMap, status |-> Status("noop", "")]
      ELSE IF DOMAIN baseMap = {} THEN keep(Status("nodata", ""))
      ELSE IF RLe(solverT, R0) THEN keep(Status("zerovotes", ""))
      ELSE [active |-> TRUE, local |-> solverAllocation(delta, solverMode),
            status |-> Status("applied", solverMode)]

\* mutant: an applied allocation also resets the global party swings
runSolver_ResetsGlobalSwings ==
  \E o \in {solveOutcome} :
    /\ solverActive' = o.active
    /\ solverLocalSwings' = o.local
    /\ solverStatus' = o.status
    /\ lastOp' = [op |-> "runSolver", wasActive |-> solverActive,
                  repeat |-> lastOp.op = "runSolver"]
    /\ demSwing' = IF o.active THEN R0 ELSE demSwing
    /\ gopSwing' = IF o.active THEN R0 ELSE gopSwing
    /\ UNCHANGED <<scopeVars, playing, counties,
                   turnoutShift, linkSwings, netSwing, baselineVars,
                   solverTargetMargin, solverMode, probe>>

runSolver ==
  \E o \in {solveOutcome} :
    /\ solverActive' = o.active
    /\ solverLocalSwings' = o.local
    /\ solverStatus' = o.status
    /\ lastOp' = [op |-> "runSolver", wasActive |-> solverActive,
                  repeat |-> lastOp.op = "runSolver"]
    /\ UNCHANGED <<scopeVars, playing, counties,
                   scenarioVars, baselineVars, solverTargetMargin, solverMode, probe>>

\* mutant: the Clear button leaves the local swing map in place
clearSolver_KeepsAllocation ==
  /\ solverActive
  /\ solverActive' = FALSE
  /\ lastOp' = OtherOp
  /\ UNCHANGED <<scopeVars, playing, counties,
                 scenarioVars, baselineVars, solverTargetMargin, solverMode,
                 solverLocalSwings, solverStatus, probe>>

\* the Clear button, shown while a solver allocation is active: clearSolver(true)
clearSolver ==
  /\ solverActive
  /\ solverLocalSwings' = EmptyMap
  /\ solverActive' = FALSE
  /\ lastOp' = OtherOp
  /\ UNCHANGED <<scopeVars, playing, counties,
                 scenarioVars, baselineVars, solverTargetMargin, solverMode,
                 solverStatus, probe>>

(***************************************************************************)
(* Environment: the baseline feeds and the values the controls can take.   *)
(***************************************************************************)
\* the election years of the model, among availableYears
ModelYears == {2020, 2024}
InitialBaseYear == 2024

AllFips == <<"17001", "18001", "17003", "18003">>
AllStates == <<"17", "18", "17", "18">>
Units == 1..NumUnits

Row(t, g, d) == [total |-> t, gop |-> g, dem |-> d]

\* the histories a county can have: year -> (total, gop, dem) where reported
HistorySeq == <<
    \* a close county that moved eight points between the two elections
    (2020 :> Row(100, 55, 45)) @@ (2024 :> Row(100, 51, 49)),
    \* a large county close to a one-party sweep
    (2020 :> Row(300, 288, 12)) @@ (2024 :> Row(300, 294, 6)),
    \* a county whose 2024 record has no votes yet
    (2020 :> Row(300, 120, 180)) @@ (2024 :> Row(0, 0, 0)) >>

\* a timeline response: for every unit its history; responses that differ
\* only in which county has which history are taken once
Feeds ==
  { [i \in Units |-> HistorySeq[k[i]]] :
      k \in {k \in [Units -> 1..Len(HistorySeq)] :
               \A i \in Units : i + 1 \in Units => k[i] <= k[i + 1]} }

\* one row of the response turned into a CountyBaseline (the rows of the model
\* carry a five-digit fips and numeric counts)
ingestRow(i, r) ==
  [fips |-> AllFips[i], stateFips |-> AllStates[i],
   totalVotes2024 |-> r.total, votesGop2024 |-> r.gop, votesDem2024 |-> r.dem]

\* tmp of the load effect: the years that have rows, each with its county map
ingestFeed(feed) ==
  LET has(y) == {i \in DOMAIN feed : y \in DOMAIN feed[i]}
      years == {y \in ModelYears : has(y) # {}}
  IN  [y \in years |->
        [f \in {AllFips[i] : i \in has(y)} |->
          LET i == CHOOSE i \in has(y) : AllFips[i] = f
          IN  ingestRow(i, feed[i][y])]]

\* the positions of the swing sliders the model visits (the sliders run over
\* the integers from -30 to 30)
SwingValues == {0, 5}

\* the texts typed into the target-margin input
TargetTexts ==
  { <<>>,
    <<"x", "5">>,
    InfinityText,
    <<" ", "5", " ">>,
    <<"2", ".", "0", "4">>,
    <<"0">> }

SolverModes == {"uniform", "elastic"}

NoProbe == [kind |-> "none"]

Init ==
  /\ baselineByYear = EmptyMap
  /\ baseMap = EmptyMap
  /\ loaded = FALSE
  /\ baseYear = InitialBaseYear
  /\ demSwing = R0
  /\ gopSwing = R0
  /\ turnoutShift = 0
  /\ linkSwings = FALSE
  /\ netSwing = 0
  /\ solverTargetMargin = <<>>
  /\ solverMode = "elastic"
  /\ solverActive = FALSE
  /\ solverLocalSwings = EmptyMap
  /\ solverStatus = NoStatus
  /\ scope = "RB"
  /\ rbBaselineByYear = baselineByYear
  /\ natBaselineByYear = EmptyMap
  /\ playing = FALSE
  /\ counties = <<>>
  /\ lastOp = OtherOp
  /\ probe = NoProbe

(***************************************************************************)
(* Handlers and effects of the page.                                       *)
(***************************************************************************)
\* the mount-time load effect completes with a timeline response; its closure
\* holds the base year of the first render
loadBaselines ==
  \E feed \in Feeds :
    LET tmp == ingestFeed(feed)
    IN  /\ ~loaded
        /\ loaded' = TRUE
        /\ rbBaselineByYear' = tmp
        /\ baselineByYear' = tmp
        /\ baseMap' = IF InitialBaseYear \in DOMAIN tmp THEN tmp[InitialBaseYear]
                      ELSE baseMap
        /\ lastOp' = OtherOp
        /\ UNCHANGED <<scope, natBaselineByYear, playing, counties,
                       baseYear, scenarioVars, solverTargetMargin, solverMode,
                       solverVars, probe>>

\* the mount-time load fails (response not ok, or the fetch throws)
loadBaselinesFailed ==
  /\ ~loaded
  /\ loaded' = TRUE
  /\ lastOp' = OtherOp
  /\ UNCHANGED <<scopeVars, playing, counties,
                 baselineByYear, baseMap, baseYear, scenarioVars,
                 solverTargetMargin, solverMode, solverVars, probe>>

\* mutant: the effect that clears the solver on a base-year change is left out
setBaseYear_KeepsSolver ==
  \E y \in ModelYears :
    /\ y # baseYear
    /\ baseYear' = y
    /\ baseMap' = IF y \in DOMAIN baselineByYear THEN baselineByYear[y] ELSE baseMap
    /\ lastOp' = [op |-> "setBaseYear", wasActive |-> solverActive, repeat |-> FALSE]
    /\ UNCHANGED <<scopeVars, playing, counties,
                   baselineByYear, loaded, scenarioVars, solverTargetMargin,
                   solverMode, solverVars, probe>>

\* the base-year select, with the two effects keyed on baseYear: switch the
\* baseline map when the year is loaded, and clearSolver(false)
setBaseYear ==
  \E y \in ModelYears :
    /\ y # baseYear
    /\ baseYear' = y
    /\ baseMap' = IF y \in DOMAIN baselineByYear THEN baselineByYear[y] ELSE baseMap
    /\ solverLocalSwings' = EmptyMap
    /\ solverActive' = FALSE
    /\ lastOp' = [op |-> "setBaseYear", wasActive |-> solverActive, repeat |-> FALSE]
    /\ UNCHANGED <<scopeVars, playing, counties,
                   baselineByYear, loaded, scenarioVars, solverTargetMargin,
                   solverMode, solverStatus, probe>>

\* the Dem swing slider (shown while the swings are not linked)
setDemSwing ==
  \E v \in SwingValues :
    /\ ~linkSwings
    /\ demSwing' = RInt(v)
    /\ lastOp' = OtherOp
    /\ UNCHANGED <<scopeVars, playing, counties,
                   baselineVars, gopSwing, turnoutShift, linkSwings, netSwing,
                   solverTargetMargin, solverMode, solverVars, probe>>

\* the GOP swing slider (shown while the swings are not linked)
setGopSwing ==
  \E v \in SwingValues :
    /\ ~linkSwings
    /\ gopSwing' = RInt(v)
    /\ lastOp' = OtherOp
    /\ UNCHANGED <<scopeVars, playing, counties,
                   baselineVars, demSwing, turnoutShift, linkSwings, netSwing,
                   solverTargetMargin, solverMode, solverVars, probe>>

\* typing into the target-margin input
setSolverTargetMargin ==
  \E t \in TargetTexts :
    /\ solverTargetMargin' = t
    /\ lastOp' = OtherOp
    /\ UNCHANGED <<scopeVars, playing, counties,
                   baselineVars, scenarioVars, solverMode, solverVars, probe>>

\* the solver-mode select
setSolverMode ==
  \E m \in SolverModes :
    /\ solverMode' = m
    /\ lastOp' = OtherOp
    /\ UNCHANGED <<scopeVars, playing, counties,
                   baselineVars, scenarioVars, solverTargetMargin, solverVars, probe>>

Next ==
  \/ loadBaselines
  \/ loadBaselinesFailed
  \/ setBaseYear
  \/ setDemSwing
  \/ setGopSwing
  \/ setSolverTargetMargin
  \/ setSolverMode
  \/ runSolver
  \/ clearSolver

Spec == Init /\ [][Next]_vars

(***************************************************************************)
(* The projection functions on their own: the page state is drawn from     *)
(* bounded sets and the functions are applied to it.                       *)
(***************************************************************************)
ShareCounts == {0, 2, 50, 98}
ShareTotals == {0, 100}
ShareSwings == {-30, -5, 0, 5, 30}
\* margin deltas of a solver allocation in effect
ShareLocalDeltas == {-40, 3, 40}
ShareFips == AllFips[1]
\* the records projected: every total with every pair of counts, the record
\* {1000, gop 550, dem 450}, and a record whose total is negative
ShareRows ==
  {Row(t, g, d) : t \in ShareTotals, g \in ShareCounts, d \in ShareCounts}
    \cup {Row(1000, 550, 450), Row(-5, 2, 2)}

InitShares ==
  /\ \E r \in ShareRows :
       /\ baseMap = (ShareFips :> ingestRow(1, r))
       /\ baselineByYear = (InitialBaseYear :> baseMap)
  /\ loaded = TRUE
  /\ baseYear = InitialBaseYear
  /\ demSwing \in {RInt(v) : v \in ShareSwings}
  /\ gopSwing \in {RInt(v) : v \in ShareSwings}
  /\ turnoutShift = 0
  /\ linkSwings = FALSE
  /\ netSwing = 0
  /\ solverTargetMargin = <<>>
  /\ solverMode = "elastic"
  /\ solverActive \in BOOLEAN
  /\ IF solverActive
       THEN \E x \in ShareLocalDeltas :
              solverLocalSwings = (ShareFips :> [dem |-> Q(-x, 2), gop |-> Q(x, 2)])
       ELSE solverLocalSwings = EmptyMap
  /\ solverStatus = NoStatus
  /\ scope = "RB"
  /\ rbBaselineByYear = baselineByYear
  /\ natBaselineByYear = EmptyMap
  /\ playing = FALSE
  /\ counties = <<>>
  /\ lastOp = OtherOp
  /\ probe = NoProbe

\* the base shares of a record as computeProjectedMargin forms them
shareOf(votes, total) == RDiv(RInt(votes), RMax(R1, RInt(total)))

\* projectedSwing is called for the county of the map
callProjectedSwing ==
  \E f \in DOMAIN baseMap :
    /\ probe' = [kind |-> "projectedSwing", fips |-> f,
                 out |-> projectedSwing(baseMap[f], f)]
    /\ UNCHANGED <<scopeVars, playing, counties,
                   baselineVars, scenarioVars, solverTargetMargin, solverMode,
                   solverVars, lastOp>>

\* computeSharesAfterSwing is called with the county's base shares and the
\* global plus local swings
callComputeSharesAfterSwing ==
  \E f \in DOMAIN baseMap :
    LET b == baseMap[f]
        d0 == shareOf(b.votesDem2024, b.totalVotes2024)
        g0 == shareOf(b.votesGop2024, b.totalVotes2024)
        dPP == RAdd(demSwing, localSwingOf(f).dem)
        gPP == RAdd(gopSwing, localSwingOf(f).gop)
    IN  /\ probe' = [kind |-> "computeSharesAfterSwing", fips |-> f,
                     dShare0 |-> d0, gShare0 |-> g0, demSwingPP |-> dPP,
                     gopSwingPP |-> gPP,
                     out |-> computeSharesAfterSwing(d0, g0, dPP, gPP)]
        /\ UNCHANGED <<scopeVars, playing, counties,
                       baselineVars, scenarioVars, solverTargetMargin, solverMode,
                       solverVars, lastOp>>

\* computeProjectedMargin is called with the county's counts, the global
\* swings and the local swings in effect
callComputeProjectedMargin ==
  \E f \in DOMAIN baseMap :
    LET b == baseMap[f]
        loc == localSwingOf(f)
    IN  /\ probe' = [kind |-> "computeProjectedMargin", fips |-> f,
                     out |-> computeProjectedMargin(b.votesDem2024, b.votesGop2024,
                               b.totalVotes2024, demSwing, gopSwing, loc.dem, loc.gop)]
        /\ UNCHANGED <<scopeVars, playing, counties,
                       baselineVars, scenarioVars, solverTargetMargin, solverMode,
                       solverVars, lastOp>>

NextShares ==
  \/ callProjectedSwing
  \/ callComputeSharesAfterSwing
  \/ callComputeProjectedMargin

SpecShares == InitShares /\ [][NextShares]_vars

(***************************************************************************)
(* The aggregators and the solver's allocation as loops over the entries   *)
(* of the baseline map in iteration order (the insertion order of the Map).*)
(***************************************************************************)
\* the orders in which a Map with the keys S can have been filled
Orders(S) ==
  {o \in [1..Cardinality(S) -> S] : \A i, j \in DOMAIN o : o[i] = o[j] => i = j}

\* the order in which the load effect inserted the keys S: the order of the
\* rows of the response
RECURSIVE rowsIn(_, _)
rowsIn(S, i) ==
  IF i > Len(AllFips) THEN <<>>
  ELSE IF AllFips[i] \in S THEN <<AllFips[i]>> \o rowsIn(S, i + 1)
  ELSE rowsIn(S, i + 1)
insertionOrder(S) == rowsIn(S, 1)

\* entries.filter(b => b.stateFips === stateFips), order kept
RECURSIVE filterState(_, _)
filterState(order, stateFips) ==
  IF order = <<>> THEN <<>>
  ELSE IF baseMap[Head(order)].stateFips = stateFips
    THEN <<Head(order)>> \o filterState(Tail(order), stateFips)
    ELSE filterState(Tail(order), stateFips)

\* mutant: the running value is overwritten, not added to
accumulate_KeepsLast(acc, x) == x

\* acc += x
accumulate(acc, x) == RAdd(acc, x)

\* the accumulation loop of the aggregators over the entries in order:
\* T += t; sum += (m/100) * t
RECURSIVE loopMargin(_, _, _, _)
loopMargin(entries, m, T, sum) ==
  IF entries = <<>> THEN [T |-> T, sum |-> sum]
  ELSE LET f == Head(entries)
           t == turnoutOf(baseMap[f])
       IN  loopMargin(Tail(entries), m, accumulate(T, t),
                      accumulate(sum, RMul(RDiv(m[f], RInt(100)), t)))

\* an aggregator: 0 without entries, else T > 0 ? (sum / T) * 100 : 0
marginOver(entries, m) ==
  LET a == loopMargin(entries, m, R0, R0)
  IN  IF entries = <<>> THEN R0
      ELSE IF RLt(R0, a.T) THEN RMul(RDiv(a.sum, a.T), RInt(100)) ELSE R0

computeStateProjectedMarginOver(order, stateFips) ==
  marginOver(filterState(order, stateFips),
    [f \in DOMAIN baseMap |->
      LET p == projectedSwing(baseMap[f], f)
      IN  IF anySwing THEN p.newMargin ELSE p.baseMargin])

computeStateBaselineMarginOver(order, stateFips) ==
  marginOver(filterState(order, stateFips),
    [f \in DOMAIN baseMap |->
      LET b == baseMap[f]
          g0 == RDiv(RInt(b.votesGop2024), RMax(R1, RInt(b.totalVotes2024)))
          d0 == RDiv(RInt(b.votesDem2024), RMax(R1, RInt(b.totalVotes2024)))
      IN  RMul(RSub(g0, d0), RInt(100))])

computeCurrentStatewideMarginNoLocalOver(order) ==
  marginOver(order,
    [f \in DOMAIN baseMap |->
      LET p == projectedSwing(baseMap[f], "")
      IN  IF demSwing # R0 \/ gopSwing # R0 THEN p.newMargin ELSE p.baseMargin])

\* entries.reduce((acc, b) => acc + Math.max(0, ...), 0)
RECURSIVE reduceTurnout(_, _)
reduceTurnout(entries, acc) ==
  IF entries = <<>> THEN acc
  ELSE reduceTurnout(Tail(entries), accumulate(acc, turnoutOf(baseMap[Head(entries)])))

\* the denominator loop of runSolver: denom += w * e
RECURSIVE loopDenom(_, _, _, _)
loopDenom(entries, mode, T, denom) ==
  IF entries = <<>> THEN denom
  ELSE loopDenom(Tail(entries), mode, T,
         accumulate(denom, RMul(wMap(Head(entries), T),
                                modeElasticity(mode, Head(entries)))))

\* runSolver with the entries of the baseline map taken in the given order
solveOutcomeOver(order) ==
  LET target == parseFloat(trim(solverTargetMargin))
      current == computeCurrentStatewideMarginNoLocalOver(order)
      delta == RSub(target.val, current)
      T == reduceTurnout(order, R0)
      d0 == loopDenom(order, solverMode, T, R0)
      denom == IF RLe(d0, R0) THEN R1 ELSE d0
      keep(st) == [active |-> solverActive, local |-> solverLocalSwings, status |-> st]
  IN  IF ~isFinite(target) THEN keep(Status("invalid", ""))
      ELSE IF RLt(RAbs(delta), Tolerance)
        THEN [active |-> FALSE, local |-> EmptyMap, status |-> Status("noop", "")]
      ELSE IF order = <<>> THEN keep(Status("nodata", ""))
      ELSE IF RLe(T, R0) THEN keep(Status("zerovotes", ""))
      ELSE [active |-> TRUE,
            local |-> [f \in DOMAIN baseMap |->
                        LET d == dCounty(delta, modeElasticity(solverMode, f), denom)
                        IN  [dem |-> RNeg(RDiv(d, RInt(2))), gop |-> RDiv(d, RInt(2))]],
            status |-> Status("applied", solverMode)]

\* the 2024 records a county of the aggregated map can have: no votes yet,
\* margins of +10, -10 and +8, and a record whose counts over-sum its total
AggRows ==
  <<Row(0, 0, 0), Row(100, 55, 45), Row(300, 135, 165), Row(500, 270, 230),
    Row(100, 60, 50)>>
\* the 2020 record of each county
AggPast == <<Row(100, 52, 48), Row(300, 180, 120), Row(200, 100, 100), Row(100, 30, 70)>>
AggStates == {"17", "18"}
\* the margin deltas of a uniform allocation in effect
AggLocalDeltas == {4}
AggTarget == <<"5">>

aggRecord(i, st, r) ==
  [fips |-> AllFips[i], stateFips |-> st,
   totalVotes2024 |-> r.total, votesGop2024 |-> r.gop, votesDem2024 |-> r.dem]

InitAggregate ==
  /\ \E k \in [Units -> 1..Len(AggRows)], st \in [Units -> AggStates] :
       /\ st[1] = "17"
       /\ baseMap = [f \in {AllFips[i] : i \in Units} |->
                      LET i == CHOOSE i \in Units : AllFips[i] = f
                      IN  aggRecord(i, st[i], AggRows[k[i]])]
       /\ baselineByYear =
            (2020 :> [f \in {AllFips[i] : i \in Units} |->
                       LET i == CHOOSE i \in Units : AllFips[i] = f
                       IN  aggRecord(i, st[i], AggPast[i])])
              @@ (InitialBaseYear :> baseMap)
  /\ loaded = TRUE
  /\ baseYear = InitialBaseYear
  /\ demSwing \in {RInt(v) : v \in SwingValues}
  /\ gopSwing \in {RInt(v) : v \in SwingValues}
  /\ turnoutShift = 0
  /\ linkSwings = FALSE
  /\ netSwing = 0
  /\ solverTargetMargin = AggTarget
  /\ solverMode \in SolverModes
  /\ solverActive \in BOOLEAN
  /\ IF solverActive
       THEN \E x \in AggLocalDeltas :
              solverLocalSwings =
                [f \in DOMAIN baseMap |-> [dem |-> Q(-x, 2), gop |-> Q(x, 2)]]
       ELSE solverLocalSwings = EmptyMap
  /\ solverStatus = NoStatus
  /\ scope = "RB"
  /\ rbBaselineByYear = baselineByYear
  /\ natBaselineByYear = EmptyMap
  /\ playing = FALSE
  /\ counties = <<>>
  /\ lastOp = OtherOp
  /\ probe = NoProbe

\* the pointer is over a state: the tooltip computes its baseline and its
\* projected margin
hoverState ==
  \E st \in AggStates, order \in {insertionOrder(DOMAIN baseMap)} :
    /\ probe' = [kind |-> "hoverState", stateFips |-> st, order |-> order,
                 baseM |-> computeStateBaselineMarginOver(order, st),
                 projM |-> computeStateProjectedMarginOver(order, st)]
    /\ UNCHANGED <<scopeVars, playing, counties,
                   baselineVars, scenarioVars, solverTargetMargin, solverMode,
                   solverVars, lastOp>>

\* Solve is pressed: the outcome runSolver computes over the map as ordered
solveOver ==
  \E order \in {insertionOrder(DOMAIN baseMap)} :
    /\ probe' = [kind |-> "solveOver", order |-> order, out |-> solveOutcomeOver(order)]
    /\ UNCHANGED <<scopeVars, playing, counties,
                   baselineVars, scenarioVars, solverTargetMargin, solverMode,
                   solverVars, lastOp>>

NextAggregate ==
  \/ hoverState
  \/ solveOver

SpecAggregate == InitAggregate /\ [][NextAggregate]_vars

(***************************************************************************)
(* The elasticity pass of runSolver over histories of up to three cycles.  *)
(***************************************************************************)
ElastYears == {2016, 2020, 2024}

\* what a cycle can hold for the county under study: no record, a record
\* without votes, or a record with margin 0, +10, -20 or +12.5
NoRecord == Row(-1, 0, 0)
CycleRows ==
  {NoRecord, Row(0, 0, 0), Row(100, 50, 50), Row(100, 55, 45), Row(100, 40, 60),
   Row(200, 110, 85)}
\* the record every other county has in every loaded cycle
SteadyRow == Row(300, 150, 150)

InitElasticity ==
  /\ \E Y \in SUBSET ElastYears, h \in [ElastYears -> CycleRows] :
       /\ baseYear \in Y
       /\ h[baseYear] # NoRecord
       /\ \A y \in ElastYears \ Y : h[y] = NoRecord
       /\ baselineByYear =
            [y \in Y |->
              [f \in {AllFips[i] : i \in {i \in Units : i > 1 \/ h[y] # NoRecord}} |->
                LET i == CHOOSE i \in Units : AllFips[i] = f
                IN  ingestRow(i, IF i = 1 THEN h[y] ELSE SteadyRow)]]
       /\ baseMap = baselineByYear[baseYear]
  /\ loaded = TRUE
  /\ demSwing = R0
  /\ gopSwing = R0
  /\ turnoutShift = 0
  /\ linkSwings = FALSE
  /\ netSwing = 0
  /\ solverTargetMargin = <<>>
  /\ solverMode = "elastic"
  /\ solverActive = FALSE
  /\ solverLocalSwings = EmptyMap
  /\ solverStatus = NoStatus
  /\ scope = "RB"
  /\ rbBaselineByYear = baselineByYear
  /\ natBaselineByYear = EmptyMap
  /\ playing = FALSE
  /\ counties = <<>>
  /\ lastOp = OtherOp
  /\ probe = NoProbe

\* the elasticity pass of runSolver: eMap filled for the entries of the map
estimateElasticities ==
  /\ probe' = [kind |-> "eMap", out |-> [f \in DOMAIN baseMap |-> eMap(f)]]
  /\ UNCHANGED <<scopeVars, playing, counties,
                 baselineVars, scenarioVars, solverTargetMargin, solverMode,
                 solverVars, lastOp>>

NextElasticity == estimateElasticities

SpecElasticity == InitElasticity /\ [][NextElasticity]_vars

(***************************************************************************)
(* The visual mappers of the swing library applied to bounded inputs.      *)
(***************************************************************************)
\* magnitudes around every bin threshold and around the cap of the ramp
MarginMagnitudes ==
  {R0, <<1, 2>>, <<99, 100>>, RInt(1), RInt(3), RInt(5), RInt(7), RInt(10),
   RInt(15), RInt(20), RInt(25), RInt(30), RInt(35), RInt(40), RInt(45), RInt(100)}
MarginInputs == MarginMagnitudes \cup {RNeg(m) : m \in MarginMagnitudes}
VoteInputs == {RInt(-10), R0, RInt(50), RInt(100), RInt(120), RInt(200), RInt(1000)}
FactorInputs == {<<1, 4>>, <<1, 2>>, R1, <<3, 2>>, RInt(2)}
P95Inputs == {RInt(-1), R0, R1, RInt(100)}

callIowaMarginBinIndex ==
  \E m \in MarginInputs :
    /\ probe' = [kind |-> "iowaMarginBinIndex", absMargin |-> m,
                 out |-> iowaMarginBinIndex(m)]
    /\ UNCHANGED <<scopeVars, playing, counties,
                   baselineVars, scenarioVars, solverTargetMargin, solverMode,
                   solverVars, lastOp>>

callExtrusionFromMarginIOWA ==
  \E m \in MarginInputs :
    /\ probe' = [kind |-> "extrusionFromMarginIOWA", marginPct |-> m,
                 out |-> extrusionFromMarginIOWA(m)]
    /\ UNCHANGED <<scopeVars, playing, counties,
                   baselineVars, scenarioVars, solverTargetMargin, solverMode,
                   solverVars, lastOp>>

callTurnoutHeightFromVotesIOWA ==
  \E v \in VoteInputs, tf \in FactorInputs, p \in P95Inputs :
    /\ probe' = [kind |-> "turnoutHeightFromVotesIOWA", totalVotes |-> v,
                 turnoutFactor |-> tf, p95 |-> p,
                 out |-> turnoutHeightFromVotesIOWA(v, tf, p)]
    /\ UNCHANGED <<scopeVars, playing, counties,
                   baselineVars, scenarioVars, solverTargetMargin, solverMode,
                   solverVars, lastOp>>

NextVisual ==
  \/ callIowaMarginBinIndex
  \/ callExtrusionFromMarginIOWA
  \/ callTurnoutHeightFromVotesIOWA

SpecVisual == Init /\ [][NextVisual]_vars

(***************************************************************************)
(* Baseline ingestion on its own: a timeline response whose rows may lack  *)
(* a fips or carry counts that are not numbers is turned into the store.   *)
(***************************************************************************)
\* JSON values of a row: an absent key, a number, a string
Missing == [kind |-> "missing"]
JNum(n) == [kind |-> "number", val |-> n]
JText(t) == [kind |-> "text", val |-> t]

\* row?.key
get(row, key) == IF key \in DOMAIN row THEN row[key] ELSE Missing

\* a || b on JSON values: a unless a is undefined, 0 or the empty string
truthy(v) == \/ v.kind = "number" /\ v.val # 0
             \/ v.kind = "text" /\ v.val # <<>>
jsOr(a, b) == IF truthy(a) THEN a ELSE b

\* Number(v): a number is itself; a string is read whole as a numeral (the
\* empty string is 0, the strings of the model hold digits or letters only);
\* undefined is NaN
Number(v) ==
  CASE v.kind = "number" -> Num(RInt(v.val))
    [] v.kind = "text" ->
         LET t == trim(v.val)
         IN  IF DigitRun(t) = Len(t) THEN Num(RInt(DigitsValue(t, 0)))
             ELSE NaN
    [] OTHER -> NaN

\* String(v).slice(-5) for a string or an absent value (String('') is '')
sliceLast5(v) ==
  LET s == IF v.kind = "text" THEN v.val ELSE <<>>
  IN  IF Len(s) <= 5 THEN s ELSE SubSeq(s, Len(s) - 4, Len(s))

\* the CountyBaseline the load effect builds from a row with fips text f
baselineOf(f, row, kTotal, kGop, kDem) ==
  [fips |-> f, stateFips |-> SubSeq(f, 1, IF Len(f) < 2 THEN Len(f) ELSE 2),
   totalVotes2024 |-> Number(jsOr(get(row, kTotal[1]), jsOr(get(row, kTotal[2]), JNum(0)))),
   votesGop2024 |-> Number(jsOr(get(row, kGop[1]), jsOr(get(row, kGop[2]), JNum(0)))),
   votesDem2024 |-> Number(jsOr(get(row, kDem[1]), jsOr(get(row, kDem[2]), JNum(0))))]

\* the fips of a row of the timeline response, '' when the row is skipped
timelineFips(b) == sliceLast5(jsOr(get(b, "fips"), JText(<<>>)))

\* the fips of a row of the local fallback file, '' when the row is skipped
fallbackFips(row) ==
  LET f == sliceLast5(jsOr(get(row, "FIPS"), jsOr(get(row, "fips"), JText(<<>>))))
  IN  IF Len(f) # 5 THEN <<>> ELSE f

\* the map built by the loop over the rows of one year: a later row replaces
\* an earlier row of the same fips
timelineMap(arr) ==
  LET kept == {i \in DOMAIN arr : timelineFips(arr[i]) # <<>>}
      last(f) == CHOOSE i \in kept :
                   /\ timelineFips(arr[i]) = f
                   /\ \A j \in kept : timelineFips(arr[j]) = f => j <= i
  IN  [f \in {timelineFips(arr[i]) : i \in kept} |->
        baselineOf(f, arr[last(f)], <<"totalVotes2024", "total">>,
                   <<"votesGop2024", "gop">>, <<"votesDem2024", "dem">>)]

loadFallbackYear(arr) ==
  LET kept == {i \in DOMAIN arr : fallbackFips(arr[i]) # <<>>}
      last(f) == CHOOSE i \in kept :
                   /\ fallbackFips(arr[i]) = f
                   /\ \A j \in kept : fallbackFips(arr[j]) = f => j <= i
  IN  [f \in {fallbackFips(arr[i]) : i \in kept} |->
        baselineOf(f, arr[last(f)], <<"total_votes", "total">>,
                   <<"votes_gop", "gop">>, <<"votes_dem", "dem">>)]

\* the years of the ingestion model: one with a local fallback file, and the
\* initial base year
IngestYears == {2012, 2024}
FallbackYears == {2008, 2012}

\* the map stored for year y, or the empty map when the year is left out
yearMap(data, fallback, y) ==
  LET m == timelineMap(data[y])
  IN  IF m = EmptyMap /\ y \in FallbackYears THEN loadFallbackYear(fallback) ELSE m

\* tmp of the load effect for a response and a fallback file
ingestTimeline(data, fallback) ==
  [y \in {y \in IngestYears : yearMap(data, fallback, y) # EmptyMap} |->
    yearMap(data, fallback, y)]

Fips17001 == <<"1", "7", "0", "0", "1">>
Fips18001 == <<"1", "8", "0", "0", "1">>
Fips17003 == <<"1", "7", "0", "0", "3">>
NotANumber == <<"n", "/", "a">>

\* rows of a timeline response
TimelineRows ==
  { \* a row with all its fields
    [fips |-> JText(Fips17001), totalVotes2024 |-> JNum(100),
     votesGop2024 |-> JNum(55), votesDem2024 |-> JNum(45)],
    \* a row under the short keys, its fips with a prefix
    [fips |-> JText(<<"U", "S">> \o Fips18001), total |-> JNum(300),
     gop |-> JNum(120), dem |-> JNum(180)],
    \* a row without a fips
    [totalVotes2024 |-> JNum(100), votesGop2024 |-> JNum(51),
     votesDem2024 |-> JNum(49)],
    \* a row whose total is not a number
    [fips |-> JText(Fips17003), totalVotes2024 |-> JText(NotANumber),
     votesGop2024 |-> JNum(10), votesDem2024 |-> JNum(5)],
    \* a row whose total is a numeral in a string and whose party counts
    \* are absent
    [fips |-> JText(Fips17003), totalVotes2024 |-> JText(<<"1", "0", "0">>)] }

\* rows of the local fallback file
FallbackRows ==
  { [FIPS |-> JText(Fips17001), total_votes |-> JNum(100),
     votes_gop |-> JNum(40), votes_dem |-> JNum(60)],
    \* a fips of four characters
    [fips |-> JText(<<"1", "7", "0", "1">>), total |-> JNum(100),
     gop |-> JNum(40), dem |-> JNum(60)],
    \* a party count that is not a number
    [fips |-> JText(Fips18001), total |-> JNum(100),
     gop |-> JText(NotANumber), dem |-> JNum(60)] }

\* the responses in flight: for every year one row per unit, and a fallback
\* file of at most one row
InitIngest ==
  /\ baselineByYear = EmptyMap
  /\ baseMap = EmptyMap
  /\ loaded = FALSE
  /\ baseYear = InitialBaseYear
  /\ demSwing = R0
  /\ gopSwing = R0
  /\ turnoutShift = 0
  /\ linkSwings = FALSE
  /\ netSwing = 0
  /\ solverTargetMargin = <<>>
  /\ solverMode = "elastic"
  /\ solverActive = FALSE
  /\ solverLocalSwings = EmptyMap
  /\ solverStatus = NoStatus
  /\ scope = "RB"
  /\ rbBaselineByYear = EmptyMap
  /\ natBaselineByYear = EmptyMap
  /\ playing = FALSE
  /\ counties = <<>>
  /\ lastOp = OtherOp
  /\ \E data \in [IngestYears -> [Units -> TimelineRows]] :
       \E fallback \in {<<>>} \cup {<<r>> : r \in FallbackRows} :
         probe = [kind |-> "timeline", data |-> data, fallback |-> fallback]

\* the mount-time load effect completes with the response in flight
loadTimeline ==
  LET tmp == ingestTimeline(probe.data, probe.fallback)
  IN  /\ ~loaded
      /\ loaded' = TRUE
      /\ rbBaselineByYear' = tmp
      /\ baselineByYear' = tmp
      /\ baseMap' = IF InitialBaseYear \in DOMAIN tmp THEN tmp[InitialBaseYear]
                    ELSE baseMap
      /\ UNCHANGED <<scope, natBaselineByYear, playing, counties, baseYear,
                     scenarioVars, solverTargetMargin, solverMode, solverVars,
                     lastOp, probe>>

NextIngest ==
  \/ loadTimeline
  \/ loadBaselinesFailed

SpecIngest == InitIngest /\ [][NextIngest]_vars

(***************************************************************************)
(* Repeated projections: the same county is projected again after other    *)
(* projections; the first result and the inputs it read are remembered.    *)
(***************************************************************************)
\* what a projection reads besides the record
scenarioRead == <<demSwing, gopSwing, solverActive, solverLocalSwings>>

\* mutant: a projection uses up the local swings it read
projectCounty_ConsumesLocal ==
  \E f \in DOMAIN baseMap :
    LET out == projectedSwing(baseMap[f], f)
    IN  /\ probe' = [kind |-> "projectedSwing", fips |-> f, out |-> out]
        /\ lastOp' = IF lastOp.op = "projectedSwing"
                       THEN [lastOp EXCEPT !.repeat = TRUE]
                       ELSE [op |-> "projectedSwing", wasActive |-> solverActive,
                             repeat |-> FALSE, between |-> FALSE, fips |-> f,
                             first |-> out, base |-> baseMap[f],
                             scenario |-> scenarioRead]
        /\ solverLocalSwings' = EmptyMap
        /\ solverActive' = FALSE
        /\ UNCHANGED <<scopeVars, playing, counties, baselineVars, scenarioVars,
                       solverTargetMargin, solverMode, solverStatus>>

\* projectedSwing(base, fips) is called for a county of the map (the render
\* of the layer, the hover card); nothing but the result leaves the call
projectCounty ==
  \E f \in DOMAIN baseMap :
    LET out == projectedSwing(baseMap[f], f)
    IN  /\ probe' = [kind |-> "projectedSwing", fips |-> f, out |-> out]
        /\ lastOp' = IF lastOp.op = "projectedSwing"
                       THEN [lastOp EXCEPT !.repeat = TRUE]
                       ELSE [op |-> "projectedSwing", wasActive |-> solverActive,
                             repeat |-> FALSE, between |-> FALSE, fips |-> f,
                             first |-> out, base |-> baseMap[f],
                             scenario |-> scenarioRead]
        /\ UNCHANGED <<scopeVars, playing, counties, baselineVars, scenarioVars,
                       solverTargetMargin, solverMode, solverVars>>

\* projectedSwing(base, undefined), the projection without local swings that
\* computeCurrentStatewideMarginNoLocal makes
projectNoLocal ==
  \E f \in DOMAIN baseMap :
    /\ probe' = [kind |-> "projectedSwingNoLocal", fips |-> f,
                 out |-> projectedSwing(baseMap[f], "")]
    /\ lastOp' = IF lastOp.op = "projectedSwing" /\ ~lastOp.repeat
                   THEN [lastOp EXCEPT !.between = TRUE]
                   ELSE lastOp
    /\ UNCHANGED <<scopeVars, playing, counties, baselineVars, scenarioVars,
                   solverTargetMargin, solverMode, solverVars>>

NextRepeat ==
  \/ projectCounty
  \/ projectNoLocal

SpecRepeat == InitShares /\ [][NextRepeat]_vars

(***************************************************************************)
(* The scenario controls: linked swings, presets, Reset All and autoplay.  *)
(***************************************************************************)
\* parseFloat(x.toFixed(2)): x rounded to hundredths, halves away from zero
toFixed2(x) ==
  LET a == IAbs(x[1]) * 100
      r == (2 * a + x[2]) \div (2 * x[2])
  IN  IF x[1] < 0 THEN Q(-r, 100) ELSE Q(r, 100)

\* the party swings the link effect sets for a net swing
linkedGop(net) == toFixed2(clamp(Q(net, 2), RInt(-30), RInt(30)))
linkedDem(net) == toFixed2(clamp(Q(-net, 2), RInt(-30), RInt(30)))

\* linkSwings and netSwing are set and the effect keyed on them runs when
\* either has changed
linkEffect(link, net) ==
  /\ linkSwings' = link
  /\ netSwing' = net
  /\ IF link /\ <<link, net>> # <<linkSwings, netSwing>>
       THEN gopSwing' = linkedGop(net) /\ demSwing' = linkedDem(net)
       ELSE UNCHANGED <<gopSwing, demSwing>>

\* the positions of the net-swing slider the model visits (it runs over the
\* integers from -60 to 60)
NetSwingValues == {-60, 0, 10}

\* autoplay ticks are followed while the three values stay this close to 0
MaxDrift == 3

\* the Link swings checkbox
setLinkSwings ==
  \E b \in BOOLEAN :
    /\ b # linkSwings
    /\ linkEffect(b, netSwing)
    /\ lastOp' = OtherOp
    /\ UNCHANGED <<scopeVars, playing, counties, baselineVars, turnoutShift,
                   solverTargetMargin, solverMode, solverVars, probe>>

\* the net-swing slider (shown while the swings are linked)
setNetSwing ==
  \E v \in NetSwingValues :
    /\ linkSwings
    /\ v # netSwing
    /\ linkEffect(linkSwings, v)
    /\ lastOp' = OtherOp
    /\ UNCHANGED <<scopeVars, playing, counties, baselineVars, turnoutShift,
                   solverTargetMargin, solverMode, solverVars, probe>>

\* the buttons Preset: D+5 and Preset: R+5:
\* clearSolver(true); setLinkSwings(true); setNetSwing(-5 or 5)
preset ==
  \E v \in {-5, 5} :
    /\ solverLocalSwings' = EmptyMap
    /\ solverActive' = FALSE
    /\ linkEffect(TRUE, v)
    /\ lastOp' = [op |-> "preset", wasActive |-> solverActive, repeat |-> FALSE]
    /\ UNCHANGED <<scopeVars, playing, counties, baselineVars, turnoutShift,
                   solverTargetMargin, solverMode, solverStatus, probe>>

\* the Reset All button
resetAll ==
  /\ demSwing' = R0
  /\ gopSwing' = R0
  /\ turnoutShift' = 0
  /\ linkSwings' = FALSE
  /\ netSwing' = 0
  /\ solverLocalSwings' = EmptyMap
  /\ solverActive' = FALSE
  /\ lastOp' = [op |-> "resetAll", wasActive |-> solverActive, repeat |-> FALSE]
  /\ UNCHANGED <<scopeVars, playing, counties, baselineVars,
                 solverTargetMargin, solverMode, solverStatus, probe>>

\* the Auto / Pause button
togglePlaying ==
  /\ playing' = ~playing
  /\ lastOp' = OtherOp
  /\ UNCHANGED <<scopeVars, counties, baselineVars, scenarioVars,
                 solverTargetMargin, solverMode, solverVars, probe>>

\* one tick of the autoplay interval: each of the three values moves by one,
\* up or down as Math.random decides, within -30..30
autoplayTick ==
  \E sd \in {-1, 1}, sg \in {-1, 1}, st \in {-1, 1} :
    /\ playing
    /\ demSwing' = clamp(RAdd(demSwing, RInt(sd)), RInt(-30), RInt(30))
    /\ gopSwing' = clamp(RAdd(gopSwing, RInt(sg)), RInt(-30), RInt(30))
    /\ turnoutShift' = IF turnoutShift + st > 30 THEN 30
                       ELSE IF turnoutShift + st < -30 THEN -30
                       ELSE turnoutShift + st
    /\ RLe(RAbs(demSwing'), RInt(MaxDrift))
    /\ RLe(RAbs(gopSwing'), RInt(MaxDrift))
    /\ IAbs(turnoutShift') <= MaxDrift
    /\ lastOp' = [op |-> "autoplayTick", wasActive |-> solverActive, repeat |-> FALSE]
    /\ UNCHANGED <<scopeVars, playing, counties, baselineVars, linkSwings, netSwing,
                   solverTargetMargin, solverMode, solverVars, probe>>

NextLink ==
  \/ setLinkSwings
  \/ setNetSwing
  \/ preset
  \/ resetAll
  \/ togglePlaying
  \/ autoplayTick
  \/ setDemSwing
  \/ setGopSwing

SpecLink == Init /\ [][NextLink]_vars

\* the same controls with the autoplay timer never started
NextLinkNoAutoplay ==
  \/ setLinkSwings
  \/ setNetSwing
  \/ preset
  \/ resetAll
  \/ setDemSwing
  \/ setGopSwing

SpecLinkNoAutoplay == Init /\ [][NextLinkNoAutoplay]_vars

(***************************************************************************)
(* The live county list (useCountyElectionSimulation): frames set the      *)
(* list and 'county-updates' events replace records in it.                 *)
(***************************************************************************)
StreamFips == {AllFips[i] : i \in Units}

\* the County records of the model: complete ones, and one that carries
\* fewer fields
CountyRecords ==
  {[fips |-> f, reportedTotal |-> t, isReported |-> t > 0] :
     f \in StreamFips, t \in {0, 10}}
    \cup {[fips |-> f, reportedTotal |-> 20] : f \in StreamFips}

\* mutant: the fields of the stored record that the update lacks are kept
mapSet_Merges(m, updated) ==
  IF \E i \in DOMAIN m : m[i].fips = updated.fips
    THEN LET i == CHOOSE i \in DOMAIN m : m[i].fips = updated.fips
         IN  [m EXCEPT ![i] = updated @@ m[i]]
    ELSE Append(m, updated)

\* countyMap.set(updated.fips, updated) on a Map kept as the sequence of its
\* values in insertion order: a present key keeps its place
mapSet(m, updated) ==
  IF \E i \in DOMAIN m : m[i].fips = updated.fips
    THEN LET i == CHOOSE i \in DOMAIN m : m[i].fips = updated.fips
         IN  [m EXCEPT ![i] = updated]
    ELSE Append(m, updated)

\* the records of list set one after the other
RECURSIVE setAll(_, _)
setAll(m, list) ==
  IF list = <<>> THEN m ELSE setAll(mapSet(m, Head(list)), Tail(list))

\* the functional update of the 'county-updates' listener:
\* Array.from(new Map(prevCounties.map(c => [c.fips, c])) with every updated
\* county set)
applyCountyUpdates(prevCounties, updatedCounties) ==
  setAll(setAll(<<>>, prevCounties), updatedCounties)

\* the lengths of the update arrays of the model
UpdateLens == {1, 2}

\* a 'simulation-frame' event with counties: the list becomes the entries of
\* the frame's county object, one per fips
frameEvent ==
  \E order \in Orders(StreamFips) :
    \E pick \in [StreamFips -> BOOLEAN], t \in [StreamFips -> {0, 10}] :
      LET all == [i \in DOMAIN order |->
                   [fips |-> order[i], reportedTotal |-> t[order[i]],
                    isReported |-> t[order[i]] > 0]]
      IN  /\ counties' = SelectSeq(all, LAMBDA c : pick[c.fips])
          /\ probe' = [kind |-> "simulation-frame"]
          /\ UNCHANGED <<scopeVars, playing, baselineVars, scenarioVars,
                         solverTargetMargin, solverMode, solverVars, lastOp>>

\* a 'county-updates' event: the listener parses the array and updates the
\* list in one functional update
countyUpdates ==
  \E n \in UpdateLens :
    \E updatedCounties \in [1..n -> CountyRecords] :
      /\ counties' = applyCountyUpdates(counties, updatedCounties)
      /\ probe' = [kind |-> "county-updates", prevCounties |-> counties,
                   updatedCounties |-> updatedCounties]
      /\ UNCHANGED <<scopeVars, playing, baselineVars, scenarioVars,
                     solverTargetMargin, solverMode, solverVars, lastOp>>

NextStream ==
  \/ frameEvent
  \/ countyUpdates

SpecStream == Init /\ [][NextStream]_vars

(***************************************************************************)
(* The scope select: the Rust Belt and the national baselines.             *)
(***************************************************************************)
\* the national timelines cover the counties of the Rust Belt and one more:
\* the Rust Belt counties with the first history, the other county with any
NatUnits == 1..(NumUnits + 1)
NatFeeds ==
  { [i \in NatUnits |-> HistorySeq[IF i \in Units THEN 1 ELSE k]] :
      k \in 1..Len(HistorySeq) }

\* the end of the scope effect: make a cache the active one and switch the
\* baseline map when the cache has the base year
activate(cache) ==
  /\ baselineByYear' = cache
  /\ baseMap' = IF baseYear \in DOMAIN cache THEN cache[baseYear] ELSE baseMap

\* the scope select with the effect keyed on scope. 'RB' activates the Rust
\* Belt cache. 'ALL' fetches the national timelines when the national cache
\* is empty (the fetch may fail and leave it empty), then activates the
\* national cache, or the Rust Belt cache when the national one is empty.
setScope ==
  \/ /\ scope = "ALL"
     /\ scope' = "RB"
     /\ activate(rbBaselineByYear)
     /\ lastOp' = [op |-> "setScope", wasActive |-> solverActive, repeat |-> FALSE]
     /\ UNCHANGED <<rbBaselineByYear, natBaselineByYear, playing, counties, loaded,
                    baseYear, scenarioVars, solverTargetMargin, solverMode,
                    solverVars, probe>>
  \/ /\ scope = "RB"
     /\ scope' = "ALL"
     /\ \E fetched \in {EmptyMap} \cup {ingestFeed(feed) : feed \in NatFeeds} :
          /\ natBaselineByYear' = IF natBaselineByYear = EmptyMap THEN fetched
                                  ELSE natBaselineByYear
          /\ activate(IF natBaselineByYear' # EmptyMap THEN natBaselineByYear'
                      ELSE rbBaselineByYear)
     /\ lastOp' = [op |-> "setScope", wasActive |-> solverActive, repeat |-> FALSE]
     /\ UNCHANGED <<rbBaselineByYear, playing, counties, loaded, baseYear,
                    scenarioVars, solverTargetMargin, solverMode, solverVars,
                    probe>>

NextScope ==
  \/ loadBaselines
  \/ setScope
  \/ setBaseYear
  \/ setSolverTargetMargin
  \/ runSolver
  \/ clearSolver

SpecScope == Init /\ [][NextScope]_vars

(***************************************************************************)
(* The solver with the controls that clear it: presets, Reset All and      *)
(* base-year changes.                                                      *)
(***************************************************************************)
NextSolverLife ==
  \/ loadBaselines
  \/ setBaseYear
  \/ setSolverTargetMargin
  \/ setSolverMode
  \/ runSolver
  \/ clearSolver
  \/ preset
  \/ resetAll

SpecSolverLife == Init /\ [][NextSolverLife]_vars

(***************************************************************************)
(* Properties of the Targeted Outcome Solver.                              *)
(***************************************************************************)
\* the target margin as runSolver reads it
TargetValue == parseFloat(trim(solverTargetMargin))

\* runSolver was the last handler to run
JustSolved == lastOp.op = "runSolver"

\* runSolver was the last handler to run and it installed an allocation
JustApplied == JustSolved /\ solverStatus.kind = "applied"

\* delta of the solve: target minus the aggregate margin without local swings
\* (runSolver changes neither)
SolveDelta == RSub(TargetValue.val, computeCurrentStatewideMarginNoLocal)

\* the total turnout of the scope
ScopeTurnout ==
  RSum([f \in DOMAIN baseMap |-> RMax(R0, RInt(baseMap[f].totalVotes2024))],
       DOMAIN baseMap)

\* the scope is empty or has no turnout
DegenerateScope == DOMAIN baseMap = {} \/ RLe(ScopeTurnout, R0)

\* the margin delta the allocation in effect gives county f
UnitDelta(f) == RSub(solverLocalSwings[f].gop, solverLocalSwings[f].dem)

\* the turnout-weighted aggregate of the projected margins of all counties of
\* the scope, local swings included
ScopeProjectedMargin ==
  LET F == DOMAIN baseMap
      num == RSum([f \in F |-> RMul(projectedSwing(baseMap[f], f).newMargin,
                                    RMax(R0, RInt(baseMap[f].totalVotes2024)))], F)
  IN  RDiv(num, ScopeTurnout)

\* C1: after a successful solve the turnout-weighted aggregate of the
\* projected margins, local swings applied on top of the global swings, equals
\* the target margin.
C1_AggregateEqualsTarget ==
  JustApplied => ScopeProjectedMargin = TargetValue.val

\* C2: after a successful solve, in either mode, the turnout-weighted sum of
\* the per-county margin deltas equals delta = target - current aggregate.
C2_WeightedDeltasSumToDelta ==
  JustApplied =>
    /\ DOMAIN solverLocalSwings = DOMAIN baseMap
    /\ RSum([f \in DOMAIN baseMap |->
               RMul(RDiv(RMax(R0, RInt(baseMap[f].totalVotes2024)), ScopeTurnout),
                    UnitDelta(f))], DOMAIN baseMap) = SolveDelta

\* an elastic solve over counties of different elasticity, one of them
\* without turnout
C2_Witness ==
  /\ JustApplied
  /\ solverMode = "elastic"
  /\ \E f, g \in DOMAIN baseMap :
       /\ UnitDelta(f) # UnitDelta(g)
       /\ baseMap[g].totalVotes2024 = 0

\* C3: in uniform mode every county of the scope receives the same margin
\* delta, equal to delta = target - current aggregate.
C3_UniformDeltaEverywhere ==
  (JustApplied /\ solverMode = "uniform") =>
    /\ DOMAIN solverLocalSwings = DOMAIN baseMap
    /\ \A f \in DOMAIN baseMap : UnitDelta(f) = SolveDelta

\* a uniform solve from an aggregate of 2.0 to a target of 5.0 over counties
\* of different turnout: each gets 3.0
C3_Witness ==
  /\ JustApplied
  /\ solverMode = "uniform"
  /\ computeCurrentStatewideMarginNoLocal = RInt(2)
  /\ TargetValue.val = RInt(5)
  /\ \E f, g \in DOMAIN baseMap :
       /\ baseMap[f].totalVotes2024 # baseMap[g].totalVotes2024
       /\ UnitDelta(f) = RInt(3)
       /\ UnitDelta(g) = RInt(3)

\* C4: the symmetric split changes the projected margin of every county with
\* positive turnout by exactly its margin delta, under the same global swings.
C4_SplitMovesMarginByUnitDelta ==
  JustApplied =>
    \A f \in DOMAIN baseMap :
      baseMap[f].totalVotes2024 > 0 =>
        RSub(projectedSwing(baseMap[f], f).newMargin,
             projectedSwing(baseMap[f], "").newMargin) = UnitDelta(f)

\* C5: a solve whose target is within 0.05 of the current aggregate is a
\* no-op: afterwards no allocation is active and every county's local swing is
\* zero, whatever was in effect before.
C5_NoOpWithinTolerance ==
  (JustSolved /\ isFinite(TargetValue) /\ RLt(RAbs(SolveDelta), Tolerance)) =>
    /\ ~solverActive
    /\ solverLocalSwings = EmptyMap
    /\ solverStatus.kind = "noop"
    /\ \A f \in DOMAIN baseMap :
         /\ localSwingOf(f) = [dem |-> R0, gop |-> R0]
         /\ projectedSwing(baseMap[f], f).local = [dem |-> R0, gop |-> R0]

\* a no-op solve over a loaded scope that replaced an active allocation
C5_Witness ==
  /\ JustSolved
  /\ lastOp.wasActive
  /\ isFinite(TargetValue)
  /\ RLt(RAbs(SolveDelta), Tolerance)
  /\ ~RLe(ScopeTurnout, R0)

\* C6: a solve with a finite target on a scope that is empty or has zero
\* aggregate turnout ends in the empty-scope error outcome and produces no
\* allocation.
C6_DegenerateScopeIsError ==
  (JustSolved /\ isFinite(TargetValue) /\ DegenerateScope) =>
    /\ solverStatus.kind \in {"nodata", "zerovotes"}
    /\ solverStatus.kind = "nodata" <=> DOMAIN baseMap = {}
    /\ ~solverActive
    /\ solverLocalSwings = EmptyMap

\* C7: a solve with a non-finite target ends in the invalid-target outcome and
\* leaves solverActive and the local swing map as they were.
C7_InvalidTargetKeepsSolver ==
  [][(lastOp'.op = "runSolver" /\ ~isFinite(parseFloat(trim(solverTargetMargin))))
       => /\ solverStatus'.kind = "invalid"
          /\ solverActive' = solverActive
          /\ solverLocalSwings' = solverLocalSwings
          /\ solverTargetMargin' = solverTargetMargin]_vars

\* an invalid-target solve that left an active allocation in place
C7_Witness ==
  /\ JustSolved
  /\ ~isFinite(TargetValue)
  /\ solverStatus.kind = "invalid"
  /\ lastOp.wasActive
  /\ solverActive
  /\ \E f \in DOMAIN solverLocalSwings : UnitDelta(f) # R0

\* C8: no solve changes the global scenario or the baselines.
C8_SolveLeavesScenarioAndBaselines ==
  [][lastOp'.op = "runSolver" =>
       /\ UNCHANGED <<demSwing, gopSwing, turnoutShift, linkSwings, netSwing>>
       /\ UNCHANGED <<baseYear, baseMap, baselineByYear>>
       /\ UNCHANGED <<solverTargetMargin, solverMode>>]_vars

\* a solve that installed an allocation while a global swing was set
C8_Witness ==
  /\ JustApplied
  /\ gopSwing # R0
  /\ \E f \in DOMAIN solverLocalSwings : UnitDelta(f) # R0

(***************************************************************************)
(* Properties of the projection functions.                                 *)
(***************************************************************************)
\* a share after its additive swing, clamped to [0, 1], before any rescale
ClampedShare(share0, pp) == RMax(R0, RMin(R1, RAdd(share0, RDiv(pp, RInt(100)))))

\* the call the probe records: its clamped shares and the shares it returned
ProbeCalled == probe.kind \in {"projectedSwing", "computeSharesAfterSwing"}
ProbeBase == baseMap[probe.fips]
ProbeHasShares ==
  \/ probe.kind = "computeSharesAfterSwing"
  \/ probe.kind = "projectedSwing" /\ probe.out.hasShares
ProbeClampedG ==
  IF probe.kind = "computeSharesAfterSwing"
    THEN ClampedShare(probe.gShare0, probe.gopSwingPP)
    ELSE ClampedShare(shareOf(ProbeBase.votesGop2024, ProbeBase.totalVotes2024),
                      RAdd(gopSwing, localSwingOf(probe.fips).gop))
ProbeClampedD ==
  IF probe.kind = "computeSharesAfterSwing"
    THEN ClampedShare(probe.dShare0, probe.demSwingPP)
    ELSE ClampedShare(shareOf(ProbeBase.votesDem2024, ProbeBase.totalVotes2024),
                      RAdd(demSwing, localSwingOf(probe.fips).dem))
ProbeG ==
  IF probe.kind = "computeSharesAfterSwing" THEN probe.out.gShare
  ELSE probe.out.newShares.g
ProbeD ==
  IF probe.kind = "computeSharesAfterSwing" THEN probe.out.dShare
  ELSE probe.out.newShares.d

\* C9: the projected shares of every record under every scenario satisfy
\* 0 <= gShare <= 1, 0 <= dShare <= 1 and gShare + dShare <= 1.
C9_ShareBound ==
  (ProbeCalled /\ ProbeHasShares) =>
    /\ RLe(R0, ProbeG) /\ RLe(ProbeG, R1)
    /\ RLe(R0, ProbeD) /\ RLe(ProbeD, R1)
    /\ RLe(RAdd(ProbeG, ProbeD), R1)

\* a projection, global and local swings set, whose shifted GOP share is
\* above 1 and whose shifted Dem share is below 0
C9_Witness ==
  /\ probe.kind = "projectedSwing"
  /\ probe.out.hasShares
  /\ solverActive
  /\ gopSwing # R0
  /\ LET b == ProbeBase
         g == RAdd(shareOf(b.votesGop2024, b.totalVotes2024),
                   RDiv(RAdd(gopSwing, localSwingOf(probe.fips).gop), RInt(100)))
         d == RAdd(shareOf(b.votesDem2024, b.totalVotes2024),
                   RDiv(RAdd(demSwing, localSwingOf(probe.fips).dem), RInt(100)))
     IN  RLt(R1, g) /\ RLt(d, R0)

\* C10: when the clamped shares sum to more than 1, the rescale preserves
\* their ratio and brings their sum to exactly 1.
C10_RescaleKeepsRatio ==
  (ProbeCalled /\ ProbeHasShares /\ RLt(R1, RAdd(ProbeClampedG, ProbeClampedD))) =>
    /\ RMul(ProbeG, ProbeClampedD) = RMul(ProbeD, ProbeClampedG)
    /\ RAdd(ProbeG, ProbeD) = R1

\* a rescale of two unequal shares, neither of them zero
C10_Witness ==
  /\ probe.kind = "computeSharesAfterSwing"
  /\ RLt(R1, RAdd(ProbeClampedG, ProbeClampedD))
  /\ ProbeClampedG # ProbeClampedD
  /\ RLt(R0, ProbeClampedD)
  /\ RLt(ProbeClampedD, R1)
  /\ RLt(ProbeClampedG, R1)

\* a projection call: the record projected, the effective deltas (global plus
\* local) and the shares shifted by them, before any clamp or rescale
ProbeProjects == probe.kind \in {"projectedSwing", "computeProjectedMargin"}
ProbeEffectiveG == RAdd(gopSwing, localSwingOf(probe.fips).gop)
ProbeEffectiveD == RAdd(demSwing, localSwingOf(probe.fips).dem)
ProbeShiftedG ==
  RAdd(Q(ProbeBase.votesGop2024, ProbeBase.totalVotes2024),
       RDiv(ProbeEffectiveG, RInt(100)))
ProbeShiftedD ==
  RAdd(Q(ProbeBase.votesDem2024, ProbeBase.totalVotes2024),
       RDiv(ProbeEffectiveD, RInt(100)))
InUnit(x) == RLe(R0, x) /\ RLe(x, R1)

\* C11: for a record with positive turnout whose shifted shares both stay in
\* [0, 1] and sum to at most 1, the projection is additive:
\* newMargin = baseMargin + (effective GOP delta - effective Dem delta), the
\* effective delta being the global swing plus the local swing.
C11_AdditiveWithoutClamp ==
  (/\ ProbeProjects
   /\ ProbeBase.totalVotes2024 > 0
   /\ InUnit(ProbeShiftedG) /\ InUnit(ProbeShiftedD)
   /\ RLe(RAdd(ProbeShiftedG, ProbeShiftedD), R1)) =>
    /\ probe.out.baseMargin =
         Q(100 * (ProbeBase.votesGop2024 - ProbeBase.votesDem2024),
           ProbeBase.totalVotes2024)
    /\ probe.out.newMargin =
         RAdd(probe.out.baseMargin, RSub(ProbeEffectiveG, ProbeEffectiveD))

\* the record {1000, gop 550, dem 450} under gop -5 and dem +5 projects to a
\* margin of exactly 0
C11_Witness ==
  /\ probe.kind = "projectedSwing"
  /\ ProbeBase.totalVotes2024 = 1000
  /\ ProbeBase.votesGop2024 = 550
  /\ ProbeBase.votesDem2024 = 450
  /\ gopSwing = RInt(-5)
  /\ demSwing = RInt(5)
  /\ ~solverActive
  /\ probe.out.baseMargin = RInt(10)
  /\ probe.out.newMargin = R0

\* C12: a record with totalVotes <= 0 projects to baseMargin = 0 and
\* newMargin = 0 under every scenario, by projectedSwing and by
\* computeProjectedMargin.
C12_ZeroTurnoutProjectsToZero ==
  (ProbeProjects /\ ProbeBase.totalVotes2024 <= 0) =>
    /\ probe.out.baseMargin = R0
    /\ probe.out.newMargin = R0

(***************************************************************************)
(* Properties of the aggregators.                                          *)
(***************************************************************************)
\* the tooltip of a state was computed: the counties of that state, and those
\* of them with positive turnout
ProbeHover == probe.kind = "hoverState"
HoverUnits == {f \in DOMAIN baseMap : baseMap[f].stateFips = probe.stateFips}
HoverVoting == {f \in HoverUnits : baseMap[f].totalVotes2024 > 0}

\* sum(m[f] * turnout_f) / sum(turnout_f) over the counties P, all of positive
\* turnout; 0 when there are none
MeanOverVoting(P, m) ==
  IF P = {} THEN R0
  ELSE RDiv(RSum([f \in P |-> RMul(m[f], RInt(baseMap[f].totalVotes2024))], P),
            RSum([f \in P |-> RInt(baseMap[f].totalVotes2024)], P))

\* the baseline and the projected margin of the counties with positive turnout
VotingBaseMargin ==
  [f \in HoverVoting |->
    Q(100 * (baseMap[f].votesGop2024 - baseMap[f].votesDem2024),
      baseMap[f].totalVotes2024)]
VotingNewMargin == [f \in HoverVoting |-> projectedSwing(baseMap[f], f).newMargin]

\* C13: the aggregate margin of a set of units is
\* sum(margin_i * turnout_i) / sum(turnout_i) over the baseline turnouts, units
\* without turnout left out of both sums, and 0 when there are no units or no
\* turnout.
C13_AggregateIsTurnoutWeightedMean ==
  ProbeHover =>
    /\ probe.baseM = MeanOverVoting(HoverVoting, VotingBaseMargin)
    /\ probe.projM = MeanOverVoting(HoverVoting,
                        IF anySwing THEN VotingNewMargin ELSE VotingBaseMargin)
    /\ (HoverUnits = {} \/ HoverVoting = {}) => probe.baseM = R0 /\ probe.projM = R0

\* the aggregate of a county without turnout and a county of turnout 500 and
\* margin +8 is +8
C13_Witness ==
  /\ ProbeHover
  /\ ~anySwing
  /\ Cardinality(HoverUnits) >= 2
  /\ \E f \in HoverUnits : baseMap[f].totalVotes2024 = 0
  /\ \E f \in HoverUnits :
       /\ baseMap[f].totalVotes2024 = 500
       /\ VotingBaseMargin[f] = RInt(8)
       /\ HoverVoting = {f}
  /\ probe.baseM = RInt(8)
  /\ probe.projM = RInt(8)

\* C14: the state aggregate is taken over the projected margins exactly when
\* demSwing # 0, gopSwing # 0 or a solver allocation is active; otherwise it
\* is taken over the baseline margins and equals the baseline aggregate.
C14_ProjectedOnlyWhenPerturbed ==
  ProbeHover =>
    IF demSwing # R0 \/ gopSwing # R0 \/ solverActive
      THEN probe.projM = MeanOverVoting(HoverVoting, VotingNewMargin)
      ELSE /\ probe.projM = probe.baseM
           /\ probe.projM = MeanOverVoting(HoverVoting, VotingBaseMargin)

\* an unperturbed scenario over a state holding a record whose projection
\* differs from its baseline (its counts over-sum its total): the aggregate
\* is the baseline aggregate
C14_Witness ==
  /\ ProbeHover
  /\ demSwing = R0 /\ gopSwing = R0 /\ ~solverActive
  /\ Cardinality(HoverVoting) >= 2
  /\ probe.projM = probe.baseM
  /\ probe.projM # R0
  /\ MeanOverVoting(HoverVoting, VotingNewMargin) # probe.projM

\* C15: for every order of the same baseline records the aggregates are the
\* same and the solver gives every county the same local swing.
C15_OrderIndependent ==
  /\ ProbeHover =>
       \A o \in Orders(DOMAIN baseMap) :
         /\ computeStateBaselineMarginOver(o, probe.stateFips) = probe.baseM
         /\ computeStateProjectedMarginOver(o, probe.stateFips) = probe.projM
  /\ probe.kind = "solveOver" =>
       \A o \in Orders(DOMAIN baseMap) :
         /\ computeCurrentStatewideMarginNoLocalOver(o)
              = computeCurrentStatewideMarginNoLocalOver(probe.order)
         /\ solveOutcomeOver(o) = probe.out

\* an elastic solve that gave counties of different turnout different swings
C15_Witness ==
  /\ probe.kind = "solveOver"
  /\ probe.out.status = Status("applied", "elastic")
  /\ Cardinality(Orders(DOMAIN baseMap)) >= 2
  /\ \E f, g \in DOMAIN baseMap :
       /\ probe.out.local[f] # probe.out.local[g]
       /\ baseMap[f].totalVotes2024 > baseMap[g].totalVotes2024
       /\ baseMap[g].totalVotes2024 > 0

(***************************************************************************)
(* Properties of the elasticity estimate.                                  *)
(***************************************************************************)
\* the loaded cycles in which county f has a record with positive turnout
Cycles(f) ==
  {y \in DOMAIN baselineByYear :
     f \in DOMAIN baselineByYear[y] /\ baselineByYear[y][f].totalVotes2024 > 0}

\* the margin of county f in cycle y
CycleMargin(f, y) ==
  Q(100 * (baselineByYear[y][f].votesGop2024 - baselineByYear[y][f].votesDem2024),
    baselineByYear[y][f].totalVotes2024)

\* the pairs of consecutive cycles of county f
ConsecutiveCycles(f) ==
  {p \in Cycles(f) \X Cycles(f) :
     p[1] < p[2] /\ ~\E y \in Cycles(f) : p[1] < y /\ y < p[2]}

\* the mean absolute change of margin between consecutive cycles (two or more
\* cycles)
AvgAbsDelta(f) ==
  RDiv(RSum([p \in ConsecutiveCycles(f) |->
               RAbs(RSub(CycleMargin(f, p[2]), CycleMargin(f, p[1])))],
            ConsecutiveCycles(f)),
       RInt(Cardinality(Cycles(f)) - 1))

\* C16: a county with two or more cycles of positive turnout has elasticity
\* clamp(1/2 + avgAbsDelta/5, 1/2, 3): within [1/2, 3], 1/2 when all margins
\* are equal, 3 when avgAbsDelta >= 12.5.
C16_ElasticityFormula ==
  probe.kind = "eMap" =>
    \A f \in DOMAIN probe.out :
      Cardinality(Cycles(f)) >= 2 =>
        LET avg == AvgAbsDelta(f)
            raw == RAdd(<<1, 2>>, RDiv(avg, RInt(5)))
            e == probe.out[f]
        IN  /\ e = (IF RLt(raw, <<1, 2>>) THEN <<1, 2>>
                    ELSE IF RLt(RInt(3), raw) THEN RInt(3) ELSE raw)
            /\ RLe(<<1, 2>>, e) /\ RLe(e, RInt(3))
            /\ (\A y, z \in Cycles(f) : CycleMargin(f, y) = CycleMargin(f, z))
                 => e = <<1, 2>>
            /\ RLe(<<25, 2>>, avg) => e = RInt(3)

\* a county with three cycles whose margin went up and then down again, of
\* elasticity strictly between the limits
C16_Witness ==
  /\ probe.kind = "eMap"
  /\ \E f \in DOMAIN probe.out :
       /\ Cardinality(Cycles(f)) = 3
       /\ CycleMargin(f, 2016) = CycleMargin(f, 2024)
       /\ CycleMargin(f, 2016) # CycleMargin(f, 2020)
       /\ RLt(<<1, 2>>, probe.out[f])
       /\ RLt(probe.out[f], RInt(3))

\* C17: a county with fewer than two cycles of positive turnout has the
\* neutral elasticity 1, whichever cycles are loaded.
C17_NeutralWithoutHistory ==
  probe.kind = "eMap" =>
    \A f \in DOMAIN probe.out : Cardinality(Cycles(f)) < 2 => probe.out[f] = R1

\* a county with one cycle of positive turnout, one cycle without votes and
\* one loaded cycle that has no record of it
C17_Witness ==
  /\ probe.kind = "eMap"
  /\ DOMAIN baselineByYear = ElastYears
  /\ \E f \in DOMAIN probe.out :
       /\ Cardinality(Cycles(f)) = 1
       /\ \E y \in ElastYears : f \notin DOMAIN baselineByYear[y]
       /\ \E y \in ElastYears :
            f \in DOMAIN baselineByYear[y] /\ baselineByYear[y][f].totalVotes2024 = 0
       /\ probe.out[f] = R1

(***************************************************************************)
(* Properties of the visual mappers.                                       *)
(***************************************************************************)
BinThresholds == {1, 5, 10, 20, 30}

\* C18: the bin index of a margin is the number of thresholds 1, 5, 10, 20, 30
\* that |margin| has reached (a margin equal to a threshold is in the higher
\* bin): it is in 0..5, non-decreasing in |margin| and the same for m and -m.
C18_BinByThresholds ==
  probe.kind = "iowaMarginBinIndex" =>
    /\ probe.out \in 0..5
    /\ probe.out =
         Cardinality({t \in BinThresholds : RLe(RInt(t), RAbs(probe.absMargin))})
    /\ iowaMarginBinIndex(RNeg(probe.absMargin)) = probe.out
    /\ \A m \in MarginInputs :
         RLe(RAbs(probe.absMargin), RAbs(m)) => probe.out <= iowaMarginBinIndex(m)

\* a negative margin on a threshold falls in the higher bin
C18_Witness ==
  /\ probe.kind = "iowaMarginBinIndex"
  /\ probe.absMargin = RInt(-5)
  /\ probe.out = 2

\* C19: the margin height is 1000 + (min(40, |m|) / 40) * 18000: 450 per point
\* up to 40 points and 19000 from there on, so between 1000 and 19000,
\* non-decreasing in |m| and the same for m and -m.
C19_MarginHeight ==
  probe.kind = "extrusionFromMarginIOWA" =>
    LET mag == RAbs(probe.marginPct)
    IN  /\ probe.out = (IF RLe(RInt(40), mag) THEN RInt(19000)
                        ELSE RAdd(RInt(1000), RMul(RInt(450), mag)))
        /\ RLe(RInt(1000), probe.out) /\ RLe(probe.out, RInt(19000))
        /\ extrusionFromMarginIOWA(RNeg(probe.marginPct)) = probe.out
        /\ \A m \in MarginInputs :
             RLe(mag, RAbs(m)) => RLe(probe.out, extrusionFromMarginIOWA(m))

\* a negative margin beyond the cap has the capped height
C19_Witness ==
  /\ probe.kind = "extrusionFromMarginIOWA"
  /\ probe.marginPct = RInt(-45)
  /\ probe.out = RInt(19000)

\* C20: the turnout height is 1000 + 18000 * min(1.2, max(0, totalVotes) * tf /
\* p95) with tf the turnout factor clamped to [0.5, 1.5]; it is 1000 when
\* p95 <= 0 or totalVotes <= 0, and non-decreasing in totalVotes and in the
\* turnout factor.
C20_TurnoutHeight ==
  probe.kind = "turnoutHeightFromVotesIOWA" =>
    LET v == probe.totalVotes
        p == probe.p95
        tf == IF RLt(probe.turnoutFactor, <<1, 2>>) THEN <<1, 2>>
              ELSE IF RLt(<<3, 2>>, probe.turnoutFactor) THEN <<3, 2>>
              ELSE probe.turnoutFactor
    IN  /\ probe.out =
             (IF RLe(p, R0) \/ RLe(v, R0) THEN RInt(1000)
              ELSE IF RLt(<<6, 5>>, RDiv(RMul(v, tf), p)) THEN RInt(22600)
              ELSE RAdd(RInt(1000), RMul(RInt(18000), RDiv(RMul(v, tf), p))))
        /\ \A v2 \in VoteInputs :
             RLe(v, v2) =>
               RLe(probe.out, turnoutHeightFromVotesIOWA(v2, probe.turnoutFactor, p))
        /\ \A f2 \in FactorInputs :
             RLe(probe.turnoutFactor, f2) =>
               RLe(probe.out, turnoutHeightFromVotesIOWA(v, f2, p))

\* a factor above 1.5 is applied as 1.5, and the quotient stays under the cap
C20_Witness ==
  /\ probe.kind = "turnoutHeightFromVotesIOWA"
  /\ probe.totalVotes = RInt(50)
  /\ probe.turnoutFactor = RInt(2)
  /\ probe.p95 = RInt(100)
  /\ probe.out = RInt(14500)

(***************************************************************************)
(* Properties of baseline ingestion.                                       *)
(***************************************************************************)
\* the load effect has stored the response in flight
Ingested == loaded /\ probe.kind = "timeline" /\ baselineByYear # EmptyMap

\* the rows the store of year y was built from
sourceRows(y) ==
  IF timelineMap(probe.data[y]) = EmptyMap /\ y \in FallbackYears
    THEN probe.fallback ELSE probe.data[y]

\* the unit code of a row, empty when it has none
unitCodeOf(row) ==
  sliceLast5(jsOr(get(row, "FIPS"), jsOr(get(row, "fips"), JText(<<>>))))

\* the value a row gives for a count under any of its keys
countOf(row, k1, k2, k3) == jsOr(get(row, k1), jsOr(get(row, k2), get(row, k3)))
TotalOf(row) == countOf(row, "totalVotes2024", "total_votes", "total")
GopOf(row) == countOf(row, "votesGop2024", "votes_gop", "gop")
DemOf(row) == countOf(row, "votesDem2024", "votes_dem", "dem")

\* a row with a five-character unit code and three counts that are numbers
WellFormedRow(row) ==
  /\ Len(unitCodeOf(row)) = 5
  /\ \A v \in {TotalOf(row), GopOf(row), DemOf(row)} : v.kind = "number"

NumericRecord(rec) ==
  /\ isFinite(rec.totalVotes2024)
  /\ isFinite(rec.votesGop2024)
  /\ isFinite(rec.votesDem2024)

\* every stored record comes from a row with a unit code
StoredHaveUnitCode ==
  Ingested =>
    \A y \in DOMAIN baselineByYear : \A f \in DOMAIN baselineByYear[y] :
      \E i \in DOMAIN sourceRows(y) : unitCodeOf(sourceRows(y)[i]) = f /\ f # <<>>

\* every well-formed row of a year is in that year's store, with its counts,
\* unless a later row of the feed has the same unit code
WellFormedStored ==
  Ingested =>
    \A y \in IngestYears : \A i \in DOMAIN sourceRows(y) :
      LET row == sourceRows(y)[i]
          f == unitCodeOf(row)
          later == \E j \in DOMAIN sourceRows(y) :
                     j > i /\ unitCodeOf(sourceRows(y)[j]) = f
      IN  (WellFormedRow(row) /\ ~later) =>
            /\ y \in DOMAIN baselineByYear
            /\ f \in DOMAIN baselineByYear[y]
            /\ baselineByYear[y][f].totalVotes2024 = Num(RInt(TotalOf(row).val))
            /\ baselineByYear[y][f].votesGop2024 = Num(RInt(GopOf(row).val))
            /\ baselineByYear[y][f].votesDem2024 = Num(RInt(DemOf(row).val))

\* C21: ingestion drops malformed rows: a record is stored only for a row
\* with a unit code and numeric vote counts, so every stored record has a
\* numeric totalVotes, gop and dem count, and the well-formed rows of the
\* same feed are all stored.
C21_OnlyWellFormedStored ==
  /\ StoredHaveUnitCode
  /\ WellFormedStored
  /\ Ingested =>
       \A y \in DOMAIN baselineByYear : \A f \in DOMAIN baselineByYear[y] :
         NumericRecord(baselineByYear[y][f])

(***************************************************************************)
(* Properties of repeated projections.                                     *)
(***************************************************************************)
\* the county projected first has just been projected again
ProjectedAgain ==
  /\ lastOp.op = "projectedSwing"
  /\ lastOp.repeat
  /\ probe.kind = "projectedSwing"
  /\ probe.fips = lastOp.fips

C23_SolveTwiceSameAllocation ==
  [][(lastOp.op = "runSolver" /\ lastOp'.op = "runSolver") =>
       /\ solverLocalSwings' = solverLocalSwings
       /\ solverActive' = solverActive]_vars

\* a solve applied an allocation that moves a county, and the solve that
\* followed it applied one again
C23_Witness ==
  /\ JustApplied
  /\ lastOp.repeat
  /\ lastOp.wasActive
  /\ \E f \in DOMAIN solverLocalSwings : solverLocalSwings[f].gop # R0

\* C24: every change of the base year clears the solver: after it solverActive
\* is false and the local swing map is empty.
C24_BaseYearChangeClearsSolver ==
  [][baseYear' # baseYear =>
       /\ ~solverActive'
       /\ solverLocalSwings' = EmptyMap]_vars

\* the base year was changed while an allocation was active, and the baseline
\* map is now the one of the new year
C24_Witness ==
  /\ lastOp.op = "setBaseYear"
  /\ lastOp.wasActive
  /\ baseYear # InitialBaseYear
  /\ baseYear \in DOMAIN baselineByYear
  /\ baseMap = baselineByYear[baseYear]
  /\ ~solverActive
  /\ solverLocalSwings = EmptyMap

\* the aggregate margin of the whole baseline map with the global swings and
\* the local swings in effect
MarginInclSolver ==
  weightedMargin(DOMAIN baseMap,
    [f \in DOMAIN baseMap |-> projectedSwing(baseMap[f], f).newMargin])

\* C25: while a solver allocation is active, the margin the statewide readout
\* shows under 'Projected (incl. sliders, solver)' is the turnout-weighted
\* aggregate with the global swings and the local swings applied.
C25_ReadoutIncludesSolver ==
  StatewideReadout.labelInclSolver =>
    StatewideReadout.projected = MarginInclSolver

(***************************************************************************)
(* Properties of the scenario controls.                                    *)
(***************************************************************************)
\* C26: while Link swings is on, after any sequence of net-swing changes,
\* preset clicks and autoplay ticks, gopSwing = clamp(netSwing / 2, -30, 30)
\* and demSwing = -gopSwing.
C26_LinkedSwingsFollowNet ==
  linkSwings =>
    /\ gopSwing = clamp(Q(netSwing, 2), RInt(-30), RInt(30))
    /\ demSwing = RNeg(gopSwing)

(***************************************************************************)
(* Properties of the live county list.                                     *)
(***************************************************************************)
\* the records of a list with fips f
recordsOf(list, f) == {list[i] : i \in {i \in DOMAIN list : list[i].fips = f}}
fipsOf(list) == {list[i].fips : i \in DOMAIN list}

\* the record an update array gives for f: the last one with that fips
lastFor(list, f) ==
  list[CHOOSE i \in DOMAIN list :
         /\ list[i].fips = f
         /\ \A j \in DOMAIN list : list[j].fips = f => j <= i]

\* C27: a 'county-updates' event replaces whole records atomically: after it,
\* for every fips in the update the stored record is exactly the update's
\* record, every other county is unchanged, and the list holds at most one
\* record per fips, for any interleaving of events.
C27_UpdateReplacesWholeRecords ==
  probe.kind = "county-updates" =>
    /\ \A f \in fipsOf(probe.updatedCounties) :
         recordsOf(counties, f) = {lastFor(probe.updatedCounties, f)}
    /\ \A f \in fipsOf(probe.prevCounties) \ fipsOf(probe.updatedCounties) :
         recordsOf(counties, f) = recordsOf(probe.prevCounties, f)
    /\ fipsOf(counties) = fipsOf(probe.prevCounties) \cup fipsOf(probe.updatedCounties)
    /\ \A i, j \in DOMAIN counties : counties[i].fips = counties[j].fips => i = j

\* an update with fewer fields replaced a complete record of the list, and
\* another county of the list was not in the update
C27_Witness ==
  /\ probe.kind = "county-updates"
  /\ \E f \in fipsOf(probe.updatedCounties) \cap fipsOf(probe.prevCounties) :
       /\ \E c \in recordsOf(probe.prevCounties, f) : "isReported" \in DOMAIN c
       /\ "isReported" \notin DOMAIN lastFor(probe.updatedCounties, f)
  /\ fipsOf(probe.prevCounties) \ fipsOf(probe.updatedCounties) # {}

(***************************************************************************)
(* The unperturbed projection.                                             *)
(***************************************************************************)
\* a projection was made with both global swings zero and no local swing
\* for its county
ProbeUnperturbed ==
  /\ ProbeProjects
  /\ demSwing = R0
  /\ gopSwing = R0
  /\ localSwingOf(probe.fips) = [dem |-> R0, gop |-> R0]

\* the projection returned the baseline: equal margins and, where it
\* reports shares, equal shares
ProbeReturnsBaseline ==
  /\ probe.out.newMargin = probe.out.baseMargin
  /\ probe.kind = "projectedSwing" => probe.out.newShares = probe.out.baseShares

\* C28: as stated: an unperturbed projection is identical to the baseline
\* for every record with positive turnout and non-negative party counts.
C28_UnperturbedIsBaseline_AnyCounts ==
  (/\ ProbeUnperturbed
   /\ ProbeBase.totalVotes2024 > 0
   /\ ProbeBase.votesGop2024 >= 0
   /\ ProbeBase.votesDem2024 >= 0) => ProbeReturnsBaseline

\* C28: an unperturbed projection is identical to the baseline (newMargin =
\* baseMargin, new shares = base shares) for every record with positive
\* turnout and non-negative party counts that sum to at most the turnout.
C28_UnperturbedIsBaseline ==
  (/\ ProbeUnperturbed
   /\ ProbeBase.totalVotes2024 > 0
   /\ ProbeBase.votesGop2024 >= 0
   /\ ProbeBase.votesDem2024 >= 0
   /\ ProbeBase.votesGop2024 + ProbeBase.votesDem2024 <= ProbeBase.totalVotes2024)
    => ProbeReturnsBaseline

\* an unperturbed projection of a record whose party counts leave a residual
\* and whose margin is not zero
C28_Witness ==
  /\ ProbeUnperturbed
  /\ ProbeBase.totalVotes2024 > 0
  /\ ProbeBase.votesGop2024 > ProbeBase.votesDem2024
  /\ ProbeBase.votesDem2024 > 0
  /\ ProbeBase.votesGop2024 + ProbeBase.votesDem2024 < ProbeBase.totalVotes2024
  /\ probe.out.newMargin # R0

(***************************************************************************)
(* Properties of the solver across baseline changes.                       *)
(***************************************************************************)
\* C29: whenever a solver allocation is active it was computed from the
\* baseline map that is active now: every operation that replaces the active
\* baseline map (scope switch, baseline load completing, base-year change)
\* leaves no allocation behind.
C29_AllocationFromActiveBaselines ==
  [][baseMap' # baseMap =>
       /\ ~solverActive'
       /\ solverLocalSwings' = EmptyMap]_vars

\* every active allocation has its entries for the counties of the active
\* baseline map
AllocationCoversActiveMap ==
  solverActive => DOMAIN solverLocalSwings = DOMAIN baseMap

\* C30: in every state reachable by solve, clear, presets, Reset All and
\* base-year changes, solverActive holds exactly when the local swing map is
\* non-empty, and a non-empty map has one entry per unit of the baseline map
\* it was computed from, each with gop = -dem.
C30_ActiveIffAllocation ==
  /\ solverActive <=> solverLocalSwings # EmptyMap
  /\ solverLocalSwings # EmptyMap =>
       /\ DOMAIN solverLocalSwings = DOMAIN baseMap
       /\ \A f \in DOMAIN solverLocalSwings :
            solverLocalSwings[f].gop = RNeg(solverLocalSwings[f].dem)

\* an allocation that moves a county was applied while a preset was in
\* effect
C30_Witness ==
  /\ JustApplied
  /\ linkSwings
  /\ gopSwing # R0
  /\ \E f \in DOMAIN solverLocalSwings : solverLocalSwings[f].gop # R0

====
